---- MODULE Spec2Model ----
(***************************************************************************)
(* A model of the factory-di container: registration (index.js,            *)
(* registration.js, injector.js), resolution (resolver.js) and invocation  *)
(* (runner.js).                                                            *)
(*                                                                         *)
(* Strings are sequences of characters; an identifier character may stand  *)
(* for a run of identifier characters ("factoryDi").  Item names are       *)
(* assumed not to collide with members of Object.prototype.                *)
(* JavaScript values are records [t, id]: t is the kind of value and id    *)
(* its identity.  Function objects given to register() live in the heap    *)
(* `fns`, because register() decorates them in place.                      *)
(***************************************************************************)
EXTENDS Integers, Sequences, FiniteSets, TLC

\* ------------------------------------------------------------------ bounds
MaxOps == 4         \* container operations per behaviour
MaxDepth == 6       \* nesting of resolveFactory calls a resolve may use

\* ------------------------------------------------------------------ values
Undefined == [t |-> "undef", id |-> 0]
Lit(k) == [t |-> "lit", id |-> k]
Obj(k) == [t |-> "obj", id |-> k]
FnVal(k) == [t |-> "fn", id |-> k]
DiVal == [t |-> "di", id |-> 0]
DiOther == [t |-> "di", id |-> 1]
NullVal == [t |-> "null", id |-> 0]
StrVal(s) == [t |-> "str", id |-> 0, s |-> s]
Hole == [t |-> "hole", id |-> 0]

\* JavaScript truthiness: undefined and the literal 0 (standing for false, 0,
\* '' and null) are falsy, everything else is truthy.
Truthy(v) == v.t \in {"obj", "fn", "di", "hole"} \/ (v.t = "lit" /\ v.id > 0)

\* ----------------------------------------------------------------- strings
IdentChars == {"a", "b", "c", "m", "z", "1", "factoryDi", "common"}
NameA == <<"a">>
NameB == <<"b">>
NameC == <<"c">>
NameZ == <<"z">>
NameM == <<"m">>
DiName == <<"factoryDi">>
CommonKey == <<"common">>
NoStr == <<>>

RECURSIVE Sanitize(_)
\* replace(/[^a-zA-Z0-9_$]/gi, '')
Sanitize(s) ==
  IF s = <<>> THEN <<>>
  ELSE IF Head(s) \in IdentChars THEN <<Head(s)>> \o Sanitize(Tail(s))
  ELSE Sanitize(Tail(s))

\* indexOf(sub) !== -1 for a one- or two-character sub
Contains1(s, ch) == \E i \in 1..Len(s) : s[i] = ch
Contains2(s, c1, c2) == \E i \in 1..(Len(s) - 1) : s[i] = c1 /\ s[i + 1] = c2
\* slice(-1) === ch
EndsWith(s, ch) == Len(s) > 0 /\ s[Len(s)] = ch

RECURSIVE SplitOn(_, _)
\* String.prototype.split(ch): always at least one piece.
SplitOn(s, ch) ==
  IF ~Contains1(s, ch) THEN <<s>>
  ELSE LET i == CHOOSE k \in 1..Len(s) : s[k] = ch /\ \A j \in 1..(k - 1) : s[j] # ch
       IN <<SubSeq(s, 1, i - 1)>> \o SplitOn(SubSeq(s, i + 1, Len(s)), ch)

\* replace(/[\s\n]/g, '')
StripSpace(s) == SelectSeq(s, LAMBDA ch : ch # " ")

\* The second group of FUNCTION_ARGUMENT_REGEXP: the text between the first
\* '(' of the function source and the first ')' after it.
ArgumentsMatch(paramText) == SplitOn(paramText, ")")[1]

\* ------------------------------------------------------ injection requests
Request(name, isOptional, asFactory, isPlaceholder) ==
  [name |-> name, isOptional |-> isOptional, asFactory |-> asFactory,
   isPlaceholder |-> isPlaceholder]
NoRequest == Request(NoStr, FALSE, FALSE, FALSE)

\* An entry of a $inject array: a string, a request object, or something else.
StrEntry(s) == [k |-> "str", s |-> s, r |-> NoRequest]
ReqEntry(r) == [k |-> "req", s |-> NoStr, r |-> r]
OtherEntry == [k |-> "other", s |-> NoStr, r |-> NoRequest]

\* The value of factory.$inject: absent, another falsy value (false, 0, '',
\* null), true, an array, or another object.
InjectNone == [k |-> "none", items |-> <<>>]
InjectFalsy == [k |-> "falsy", items |-> <<>>]
InjectTrue == [k |-> "true", items |-> <<>>]
InjectList(items) == [k |-> "list", items |-> items]
InjectObject == [k |-> "object", items |-> <<>>]

\* The value of factory.$placeholders.
PlaceholdersNone == [k |-> "none", items |-> <<>>]
PlaceholdersList(items) == [k |-> "list", items |-> items]
PlaceholdersObject == [k |-> "object", items |-> <<>>]

\* ------------------------------------------------------------------ errors
\* errorHelper: the lines of error.stack after the message, one per history
\* record: the name, the file ('?' when unknown), the register source.
StackEntry(item) ==
  [name |-> item.name,
   filepath |-> IF item.filepath = "" THEN "?" ELSE item.filepath,
   registerSource |-> IF item.registerSource = "" THEN "?" ELSE item.registerSource]

\* Variant: the stack lists the history in the order it was built.
buildErrorWithStackForward(history) ==
  [i \in 1..Len(history) |-> StackEntry(history[i])]

buildErrorWithStack(history) ==
  [i \in 1..Len(history) |-> StackEntry(history[Len(history) + 1 - i])]

NoErr == [kind |-> "none", name |-> NoStr, item |-> NoStr, idx |-> {}, found |-> 0,
          expected |-> 0, trace |-> <<>>, stack |-> <<>>]
Err(kind, name, item, trace) == [NoErr EXCEPT !.kind = kind, !.name = name,
                                  !.item = item, !.trace = trace,
                                  !.stack = buildErrorWithStack(trace)]

\* historyHelper.js
HistoryRecord(itemName, filename, registerSource, isUndefined) ==
  [name |-> itemName, filepath |-> filename, registerSource |-> registerSource,
   notFound |-> isUndefined]
addToHistory(history, itemName, filename, registerSource, isUndefined) ==
  Append(history, HistoryRecord(itemName, filename, registerSource, isUndefined))

\* ------------------------------------------------------------- injector.js
ParseOk(reqs) == [ok |-> TRUE, err |-> NoErr, reqs |-> reqs]
ParseFail(err) == [ok |-> FALSE, err |-> err, reqs |-> <<>>]

buildInjectionRequest(name, isOptional, isPlaceholder) ==
  Request(name, isOptional, FALSE, isPlaceholder)

\* One entry of an explicit $inject array (the body of the map callback).
ParseSpecifier(entry) ==
  IF entry.k = "req" /\ entry.r.name # NoStr THEN entry.r
  ELSE IF entry.k # "str" THEN NoRequest
  ELSE Request(Sanitize(entry.s),
               EndsWith(entry.s, "?"),
               Contains2(entry.s, "(", ")"),
               Contains1(entry.s, "*"))

\* The zero-based indexes the map callback pushes on invalidIndexes.
InvalidSpecifier(entry) ==
  IF entry.k = "req" /\ entry.r.name # NoStr THEN FALSE
  ELSE IF entry.k # "str" THEN TRUE
  ELSE Sanitize(entry.s) = NoStr

\* Variant: only the first invalid index is reported.
parseFactoryInjectionArgumentsFirstOnly(inject) ==
  IF inject.k # "list" THEN ParseFail(Err("inject-nonarray", NoStr, NoStr, <<>>))
  ELSE LET items == inject.items
           invalidIndexes == {i - 1 : i \in {j \in 1..Len(items) : InvalidSpecifier(items[j])}}
       IN IF invalidIndexes # {}
          THEN ParseFail([Err("inject-invalid", NoStr, NoStr, <<>>) EXCEPT
                            !.idx = {CHOOSE i \in invalidIndexes : \A j \in invalidIndexes : i <= j}])
          ELSE ParseOk([i \in 1..Len(items) |-> ParseSpecifier(items[i])])

parseFactoryInjectionArguments(inject) ==
  IF inject.k # "list" THEN ParseFail(Err("inject-nonarray", NoStr, NoStr, <<>>))
  ELSE LET items == inject.items
           invalidIndexes == {i - 1 : i \in {j \in 1..Len(items) : InvalidSpecifier(items[j])}}
       IN IF invalidIndexes # {}
          THEN ParseFail([Err("inject-invalid", NoStr, NoStr, <<>>) EXCEPT !.idx = invalidIndexes])
          ELSE ParseOk([i \in 1..Len(items) |-> ParseSpecifier(items[i])])

\* Variant: no placeholder of $placeholders is optional.
PlaceholderOptionalNever(items, name) == FALSE

\* The parsed $placeholders: the names, and for each whether it is optional.
\* A later entry with the same sanitized name overwrites an earlier one.
PlaceholderOptional(items, name) ==
  LET last == CHOOSE i \in 1..Len(items) :
                /\ Sanitize(items[i].s) = name
                /\ \A j \in (i + 1)..Len(items) : Sanitize(items[j].s) # name
  IN EndsWith(items[last].s, "?")

getFactoryPlaceholderOptions(placeholders) ==
  IF placeholders.k = "none" THEN [ok |-> TRUE, err |-> NoErr, names |-> {}, items |-> <<>>]
  ELSE IF placeholders.k # "list"
  THEN [ok |-> FALSE, err |-> Err("placeholders-nonarray", NoStr, NoStr, <<>>),
        names |-> {}, items |-> <<>>]
  ELSE LET items == placeholders.items
           invalidIndexes == {i - 1 : i \in {j \in 1..Len(items) :
                                 items[j].k # "str" \/ Sanitize(items[j].s) = NoStr}}
       IN IF invalidIndexes # {}
          THEN [ok |-> FALSE,
                err |-> [Err("placeholders-invalid", NoStr, NoStr, <<>>) EXCEPT !.idx = invalidIndexes],
                names |-> {}, items |-> <<>>]
          ELSE [ok |-> TRUE, err |-> NoErr,
                names |-> {Sanitize(items[i].s) : i \in 1..Len(items)}, items |-> items]

RECURSIVE ReduceArguments(_, _, _)
\* The reduce over the comma-separated function arguments.
ReduceArguments(pieces, placeholderType, opts) ==
  IF pieces = <<>> THEN <<>>
  ELSE LET functionArgument == Head(pieces)
           hasDefault == Contains1(functionArgument, "=")
           name == IF hasDefault THEN SplitOn(functionArgument, "=")[1] ELSE functionArgument
           fromPlaceholder == placeholderType = "list" /\ name \in opts.names
           isPlaceholder == IF placeholderType = "all" THEN TRUE
                            ELSE IF placeholderType = "optional" THEN hasDefault
                            ELSE fromPlaceholder
           isOptional == IF fromPlaceholder THEN PlaceholderOptional(opts.items, name)
                         ELSE hasDefault
           rest == ReduceArguments(Tail(pieces), placeholderType, opts)
       IN IF functionArgument = NoStr THEN rest
          ELSE <<buildInjectionRequest(name, isOptional, isPlaceholder)>> \o rest

parseFactoryPlaceholderArguments(paramText, placeholders, placeholderType) ==
  LET opts == IF placeholderType = "list" THEN getFactoryPlaceholderOptions(placeholders)
              ELSE getFactoryPlaceholderOptions(PlaceholdersNone)
      args == ArgumentsMatch(paramText)
      cleanedArguments == StripSpace(args)
  IN IF ~opts.ok THEN ParseFail(opts.err)
     ELSE IF args = NoStr \/ cleanedArguments = NoStr THEN ParseOk(<<>>)
     ELSE ParseOk(ReduceArguments(SplitOn(cleanedArguments, ","), placeholderType, opts))

\* The error validateFunctionArgumentCount throws, if any.
validateFunctionArgumentCount(paramText, factoryArgsCount) ==
  LET args == ArgumentsMatch(paramText)
      expectedArgsCount == IF args # NoStr THEN Len(SplitOn(args, ",")) ELSE 0
  IN IF factoryArgsCount # expectedArgsCount
     THEN [Err("count-mismatch", NoStr, NoStr, <<>>) EXCEPT !.found = factoryArgsCount,
                                                           !.expected = expectedArgsCount]
     ELSE NoErr

\* Variant: without $inject the parameters are read as with $inject = true.
parseFactoryInjectAsTrue(inject, paramText, placeholders) ==
  IF inject.k \in {"none", "falsy", "true"}
  THEN parseFactoryPlaceholderArguments(paramText, placeholders, "list")
  ELSE LET injectionArgs == parseFactoryInjectionArguments(inject)
           countErr == validateFunctionArgumentCount(paramText, Len(injectionArgs.reqs))
       IN IF ~injectionArgs.ok THEN injectionArgs
          ELSE IF countErr.kind # "none" THEN ParseFail(countErr)
          ELSE injectionArgs

parseFactoryInject(inject, paramText, placeholders) ==
  IF inject.k \in {"none", "falsy"}
  THEN parseFactoryPlaceholderArguments(paramText, placeholders, "all")
  ELSE IF inject.k = "true" THEN parseFactoryPlaceholderArguments(paramText, placeholders, "list")
  ELSE LET injectionArgs == parseFactoryInjectionArguments(inject)
           countErr == validateFunctionArgumentCount(paramText, Len(injectionArgs.reqs))
       IN IF ~injectionArgs.ok THEN injectionArgs
          ELSE IF countErr.kind # "none" THEN ParseFail(countErr)
          ELSE injectionArgs

\* ------------------------------------------------- factories (test fixtures)
\* The function objects the application hands to register().  paramText is the
\* parameter list of the function's source text, body what the function does
\* with its arguments: "fresh" returns a new object literal, "arg" returns its
\* first argument (the default value `dflt` when that argument is undefined and
\* the parameter declares a default), "call" calls its first argument twice and
\* returns what the second call returned.
FnLeaf == 1
FnLeafS == 2
FnOnC == 3
FnOnBC == 4
FnOnA == 5
FnOptC == 6
FnPhZ == 7
FnDefC == 8
FnOnCB == 9
FnOptZ == 10
FnOnCPhZ == 11
FnOnCF == 12
FnInjObj == 13
FnInjBad == 14
FnInjFalse == 15
FnOnDi == 16
FnShort == 17
FnTrail == 18
FnTrailZ == 19
FnNoFile == 20
FnPhCZ == 21
FnTrueOptZ == 22
FnTrueReqZ == 23
FnPhZOnC == 24
FnPhMOnCPhZ == 25
FnNest == 26
FnPhBad == 27
FnOnM == 28
FnIds == {FnLeaf, FnLeafS, FnOnC, FnOnBC, FnOnA, FnOptC, FnPhZ, FnDefC, FnOnCB, FnOptZ, FnOnCPhZ,
          FnOnCF, FnInjObj, FnInjBad, FnInjFalse, FnOnDi, FnShort, FnTrail, FnTrailZ,
          FnNoFile, FnPhCZ, FnTrueOptZ, FnTrueReqZ, FnPhZOnC, FnPhMOnCPhZ,
          FnNest, FnPhBad, FnOnM}

Source(paramText, body, hasDefault, placeholders) ==
  [paramText |-> paramText, body |-> body, hasDefault |-> hasDefault,
   placeholders |-> placeholders]
Deco(singleton, filename, regSource, inject) ==
  [singleton |-> singleton, filename |-> filename, regSource |-> regSource,
   inject |-> inject]

DefaultLit == Lit(7)

FnSource(f) ==
  CASE f = FnLeaf  -> Source(<<>>, "fresh", FALSE, PlaceholdersNone)
    [] f = FnLeafS -> Source(<<>>, "fresh", FALSE, PlaceholdersNone)
    [] f = FnOnC   -> Source(<<"c">>, "fresh", FALSE, PlaceholdersNone)
    [] f = FnOnBC  -> Source(<<"b", ",", " ", "c">>, "fresh", FALSE, PlaceholdersNone)
    [] f = FnOnA   -> Source(<<"a">>, "arg", FALSE, PlaceholdersNone)
    [] f = FnOptC  -> Source(<<"c">>, "arg", FALSE, PlaceholdersNone)
    [] f = FnPhZ   -> Source(<<"z">>, "arg", FALSE, PlaceholdersNone)
    [] f = FnDefC  -> Source(<<"c", " ", "=", " ", "1">>, "arg", TRUE, PlaceholdersNone)
    [] f = FnOnCB  -> Source(<<"c", ",", " ", "b">>, "fresh", FALSE, PlaceholdersNone)
    [] f = FnOptZ  -> Source(<<"z">>, "arg", FALSE, PlaceholdersNone)
    [] f = FnOnCPhZ -> Source(<<"c", ",", " ", "z">>, "fresh", FALSE, PlaceholdersNone)
    [] f = FnOnCF  -> Source(<<"c">>, "call", FALSE, PlaceholdersNone)
    [] f = FnInjObj -> Source(<<"b">>, "arg", FALSE, PlaceholdersNone)
    [] f = FnInjBad -> Source(<<"a", ",", " ", "c", ",", " ", "b">>, "fresh", FALSE,
                              PlaceholdersNone)
    [] f = FnInjFalse -> Source(<<"z">>, "arg", FALSE, PlaceholdersNone)
    [] f = FnOnDi  -> Source(<<"factoryDi">>, "arg", FALSE, PlaceholdersNone)
    [] f = FnShort -> Source(<<"c", ",", " ", "b">>, "fresh", FALSE, PlaceholdersNone)
    [] f = FnTrail -> Source(<<"c", ",", " ", "b", ",">>, "fresh", FALSE, PlaceholdersNone)
    [] f = FnTrailZ -> Source(<<"c", ",", " ", "b", ",">>, "fresh", FALSE, PlaceholdersNone)
    [] f = FnNoFile -> Source(<<>>, "fresh", FALSE, PlaceholdersNone)
    [] f = FnPhCZ  -> Source(<<"c", ",", " ", "z", " ", "=", " ", "1">>, "arg", FALSE,
                             PlaceholdersNone)
    [] f = FnTrueOptZ -> Source(<<"c", ",", " ", "z">>, "arg", FALSE,
                                PlaceholdersList(<<StrEntry(<<"z", "?">>)>>))
    [] f = FnTrueReqZ -> Source(<<"c", ",", " ", "z">>, "arg", FALSE,
                                PlaceholdersList(<<StrEntry(<<"z">>)>>))
    [] f = FnPhZOnC -> Source(<<"z", ",", " ", "c">>, "fresh", FALSE, PlaceholdersNone)
    [] f = FnPhMOnCPhZ -> Source(<<"m", ",", " ", "c", ",", " ", "z">>, "fresh", FALSE,
                                 PlaceholdersNone)
    [] f = FnNest  -> Source(<<"m">>, "nested", FALSE, PlaceholdersNone)
    [] f = FnPhBad -> Source(<<"c", ",", " ", "z">>, "arg", FALSE,
                             PlaceholdersList(<<OtherEntry>>))
    [] f = FnOnM   -> Source(<<"m">>, "fresh", FALSE, PlaceholdersNone)

\* The decorations the fixtures carry before they are registered.
FnDeclared(f) ==
  CASE f = FnLeaf  -> Deco(FALSE, "leaf.js", "", InjectNone)
    [] f = FnLeafS -> Deco(TRUE, "leafS.js", "", InjectNone)
    [] f = FnOnC   -> Deco(FALSE, "onC.js", "", InjectList(<<StrEntry(<<"c">>)>>))
    [] f = FnOnBC  -> Deco(FALSE, "onBC.js", "", InjectTrue)
    [] f = FnOnA   -> Deco(FALSE, "onA.js", "", InjectList(<<StrEntry(<<"a">>)>>))
    [] f = FnOptC  -> Deco(TRUE, "optC.js", "", InjectList(<<StrEntry(<<"c", "?">>)>>))
    [] f = FnPhZ   -> Deco(FALSE, "phZ.js", "", InjectNone)
    [] f = FnDefC  -> Deco(FALSE, "defC.js", "", InjectTrue)
    [] f = FnOnCB  -> Deco(FALSE, "onCB.js", "",
                           InjectList(<<StrEntry(<<"c">>), StrEntry(<<"b">>)>>))
    [] f = FnOptZ  -> Deco(TRUE, "optZ.js", "", InjectList(<<StrEntry(<<"z", "*", "?">>)>>))
    [] f = FnOnCPhZ -> Deco(FALSE, "onCPhZ.js", "",
                            InjectList(<<StrEntry(<<"c">>), StrEntry(<<"z", "*">>)>>))
    [] f = FnOnCF  -> Deco(FALSE, "onCF.js", "", InjectList(<<StrEntry(<<"c", "(", ")">>)>>))
    [] f = FnInjObj -> Deco(FALSE, "injObj.js", "", InjectObject)
    [] f = FnInjBad -> Deco(FALSE, "injBad.js", "",
                            InjectList(<<OtherEntry,
                                         ReqEntry(Request(<<"c">>, FALSE, FALSE, FALSE)),
                                         StrEntry(<<"?">>)>>))
    [] f = FnInjFalse -> Deco(FALSE, "injFalse.js", "", InjectFalsy)
    [] f = FnOnDi  -> Deco(FALSE, "onDi.js", "", InjectList(<<StrEntry(DiName)>>))
    [] f = FnShort -> Deco(FALSE, "short.js", "", InjectList(<<StrEntry(<<"c">>)>>))
    [] f = FnTrail -> Deco(FALSE, "trail.js", "",
                           InjectList(<<StrEntry(<<"c", "?">>), StrEntry(<<"b", "?">>)>>))
    [] f = FnTrailZ -> Deco(FALSE, "trailZ.js", "",
                            InjectList(<<StrEntry(<<"c", "?">>), StrEntry(<<"b", "?">>),
                                         StrEntry(<<"z", "*", "?">>)>>))
    [] f = FnNoFile -> Deco(FALSE, "", "", InjectNone)
    [] f = FnPhCZ  -> Deco(FALSE, "phCZ.js", "", InjectNone)
    [] f = FnTrueOptZ -> Deco(FALSE, "trueOptZ.js", "", InjectTrue)
    [] f = FnTrueReqZ -> Deco(FALSE, "trueReqZ.js", "", InjectTrue)
    [] f = FnPhZOnC -> Deco(FALSE, "phZOnC.js", "",
                            InjectList(<<StrEntry(<<"z", "*">>), StrEntry(<<"c">>)>>))
    [] f = FnNest  -> Deco(FALSE, "nest.js", "", InjectList(<<StrEntry(DiName)>>))
    [] f = FnPhBad -> Deco(FALSE, "phBad.js", "", InjectTrue)
    [] f = FnOnM   -> Deco(FALSE, "onM.js", "", InjectList(<<StrEntry(<<"m">>)>>))
    [] f = FnPhMOnCPhZ -> Deco(FALSE, "phMOnCPhZ.js", "",
                               InjectList(<<StrEntry(<<"m", "*", "?">>), StrEntry(<<"c">>),
                                            StrEntry(<<"z", "*">>)>>))

\* itemFactory: the wrapper register() builds around a non-function item.
ItemSource == Source(<<>>, "item", FALSE, PlaceholdersNone)
ItemDeclared(itemFilename) == Deco(TRUE, itemFilename, "", InjectNone)

\* A registry entry refers to a fixture (fid # 0, decorations in the heap) or
\* holds a wrapper of its own (fid = 0).
FnEntry(f) == [fid |-> f, item |-> Undefined, deco |-> Deco(FALSE, "", "", InjectNone)]
ItemEntry(v, deco) == [fid |-> 0, item |-> v, deco |-> deco]
EntrySource(e) == IF e.fid = 0 THEN ItemSource ELSE FnSource(e.fid)

\* ---------------------------------------------------------- registration.js
RegisterOptions(forceSingleton, filename, registerSourceFile, skipTraceErrors) ==
  [forceSingleton |-> forceSingleton, filename |-> filename,
   registerSourceFile |-> registerSourceFile, skipTraceErrors |-> skipTraceErrors]
NoOptions == RegisterOptions(FALSE, "", "", FALSE)

\* A register source label: "" stands for undefined and for the empty string,
\* NullSource for null; every other string is a label.  SourceGiven is the
\* truthiness of the label.
NullSource == "<null>"
SourceGiven(label) == label \notin {"", NullSource}

\* Variant: a factory without $filename is refused as well.
validateFactoryStrict(deco, itemName, registerHistory) ==
  IF deco.regSource = "" \/ deco.filename = ""
  THEN Err("no-source", itemName, itemName, registerHistory)
  ELSE NoErr

\* The error validateFactory throws, if any.
validateFactory(deco, itemName, registerHistory) ==
  IF deco.regSource = "" THEN Err("no-source", itemName, itemName, registerHistory)
  ELSE NoErr

\* registerFactory on the factory object with decorations `deco` and source
\* `src`: the decorations the object carries afterwards, and the outcome.
registerFactory(metaState, itemName, deco, src, options) ==
  LET stamped == [deco EXCEPT
                    !.singleton = IF options.forceSingleton THEN TRUE ELSE @,
                    !.filename = IF options.filename # "" THEN options.filename ELSE @,
                    !.regSource = IF SourceGiven(options.registerSourceFile)
                                  THEN options.registerSourceFile
                                  ELSE IF SourceGiven(metaState.registerSourceFile)
                                  THEN metaState.registerSourceFile
                                  ELSE ""]
      registerHistory == addToHistory(<<>>, itemName, stamped.filename, stamped.regSource, FALSE)
      traceErr == IF ~options.skipTraceErrors /\ ~metaState.skipTraceErrors
                  THEN validateFactory(stamped, itemName, registerHistory)
                  ELSE NoErr
      parsed == parseFactoryInject(stamped.inject, src.paramText, src.placeholders)
  IN IF traceErr.kind # "none" THEN [ok |-> FALSE, err |-> traceErr, deco |-> stamped]
     ELSE IF ~parsed.ok
     THEN [ok |-> FALSE,
           err |-> [parsed.err EXCEPT !.item = itemName, !.trace = registerHistory,
                                      !.stack = buildErrorWithStack(registerHistory)],
           deco |-> stamped]
     ELSE [ok |-> TRUE, err |-> NoErr,
           deco |-> [stamped EXCEPT
                       !.inject = InjectList([i \in 1..Len(parsed.reqs) |-> ReqEntry(parsed.reqs[i])])]]

\* ------------------------------------------------------------------- state
VARIABLES
  registered,   \* injectorState.registered: item name -> registry entry
  singletons,   \* injectorState.singletons: item name -> cached value
  meta,         \* injectorState.meta
  fns,          \* the decorations of the fixture function objects
  nextId,       \* number of objects the factory bodies have created
  nops,         \* number of container operations performed
  last,         \* the last operation: its input, its outcome, the body calls it made
  returned,     \* per name, the value the last successful resolve(name) returned
                \* since the last register or clearSingletons call
  execs,        \* per name, how often the body of its factory ran since the name
                \* was last registered or the cache was last cleared (2: twice or more)
  regs,         \* per name, how often it was registered (2: twice or more)
  beforeClear,  \* per name, what resolve(name) had returned when the cache was
                \* last cleared, for the factory registered now
  other         \* the injectorState of a second container, constructed
                \* independently in the same program

vars == <<registered, singletons, meta, fns, nextId, nops, last, returned, execs, regs,
          beforeClear, other>>

ItemNames == {NameA, NameB, NameC}

EntryDeco(e) == IF e.fid = 0 THEN e.deco ELSE fns[e.fid]

\* An injectorState value held by the resolver: `live` tells whether it is the
\* container's own injectorState object (whose fields updateInjectorState
\* assigns) or a copy made by an object spread.
InjectorState(reg, sing) == [registered |-> reg, singletons |-> sing, live |-> TRUE]
Cached(st, itemName) ==
  IF itemName \in DOMAIN st.singletons THEN st.singletons[itemName] ELSE Undefined

\* ------------------------------------------------------------ resolve inputs
\* resolveArgs: absent, an object of argument bags, or another value (an array,
\* a string).  A bag maps placeholder names to values.
ArgsNone == [k |-> "none", bags |-> <<>>]
ArgsBags(bags) == [k |-> "bags", bags |-> bags]
ArgsOther == [k |-> "other", bags |-> <<>>]
EmptyBag == <<>>

\* Variant: the bag under 'b' whenever there is one, whatever the key.
BagOfFixedKey(resolveArgs, key) ==
  IF resolveArgs.k = "bags" /\ <<"b">> \in DOMAIN resolveArgs.bags
  THEN resolveArgs.bags[<<"b">>]
  ELSE IF resolveArgs.k = "bags" /\ key \in DOMAIN resolveArgs.bags
  THEN resolveArgs.bags[key] ELSE <<>>

\* safeResolveArgs[key] || {}
BagOf(resolveArgs, key) ==
  IF resolveArgs.k = "bags" /\ key \in DOMAIN resolveArgs.bags
  THEN resolveArgs.bags[key] ELSE EmptyBag

\* Variant: the shared bag wins over the bag of the item.
UsableArgCommonFirst(resolveArgs, itemName, name) ==
  IF name \in DOMAIN BagOf(resolveArgs, <<"common">>)
  THEN BagOf(resolveArgs, <<"common">>)[name]
  ELSE IF name \in DOMAIN BagOf(resolveArgs, itemName) THEN BagOf(resolveArgs, itemName)[name]
  ELSE Undefined

\* {...argsForAllFactories, ...argsForThisFactory}[name]
UsableArg(resolveArgs, itemName, name) ==
  LET argsForThisFactory == BagOf(resolveArgs, itemName)
      argsForAllFactories == BagOf(resolveArgs, CommonKey)
  IN IF name \in DOMAIN argsForThisFactory THEN argsForThisFactory[name]
     ELSE IF name \in DOMAIN argsForAllFactories THEN argsForAllFactories[name]
     ELSE Undefined

\* ---------------------------------------------------------------- callables
\* What resolveFactory returns as resolvedFactory: the registered function
\* itself ("raw"), a lodash partial of it ("curried"), or one of the two
\* synthetic wrappers.  hasPh: the callable carries $$placeholderArgs.
Callable(k, name, entry, val, deps, ph, hasPh) ==
  [k |-> k, name |-> name, entry |-> entry, val |-> val, deps |-> deps, ph |-> ph,
   hasPh |-> hasPh]

\* Variant: a wrapper that yields the cached value only when it is truthy.
resolveSingletonAsFactoryTruthy(st, itemName) ==
  Callable("single", itemName, FnEntry(0),
           IF Truthy(Cached(st, itemName)) THEN Cached(st, itemName) ELSE Undefined,
           <<>>, <<>>, TRUE)

resolveSingletonAsFactory(st, itemName) ==
  Callable("single", itemName, FnEntry(0), Cached(st, itemName), <<>>, <<>>, TRUE)
getFactoryForUndefined(itemName) ==
  Callable("undef", itemName, FnEntry(0), Undefined, <<>>, <<>>, TRUE)
RawFactory(itemName, entry) ==
  Callable("raw", itemName, entry, Undefined, <<>>, <<>>, FALSE)

getPlaceholderArguments(inject) ==
  SelectSeq([i \in 1..Len(inject.items) |-> inject.items[i].r], LAMBDA r : r.isPlaceholder)

\* Variant: the dependencies bound in reverse order.
curryFactoryReversed(itemName, entry, curryArgs) ==
  Callable("curried", itemName, entry, Undefined,
           [i \in 1..Len(curryArgs) |-> curryArgs[Len(curryArgs) + 1 - i]],
           getPlaceholderArguments(EntryDeco(entry).inject), TRUE)

curryFactory(itemName, entry, curryArgs) ==
  Callable("curried", itemName, entry, Undefined, curryArgs,
           getPlaceholderArguments(EntryDeco(entry).inject), TRUE)

\* The decorators a callable carries ($singleton, $filename, $$registerSourceFile).
CallableSingleton(c) == c.k \in {"raw", "curried"} /\ EntryDeco(c.entry).singleton
CallableFilename(c) == IF c.k \in {"raw", "curried"} THEN EntryDeco(c.entry).filename ELSE ""
CallableRegSource(c) == IF c.k \in {"raw", "curried"} THEN EntryDeco(c.entry).regSource ELSE ""

\* lodash partial: the call arguments fill the placeholder positions of the
\* partials in order (a position left unfilled is passed as undefined), the
\* remaining ones are appended.
HolesBefore(deps, i) == Cardinality({j \in 1..(i - 1) : deps[j] = Hole})
HoleCount(deps) == Cardinality({j \in 1..Len(deps) : deps[j] = Hole})

\* Variant: the call arguments are appended after the bound dependencies.
ComposeArgsAppended(deps, vals) ==
  SelectSeq(deps, LAMBDA d : d # Hole) \o vals

ComposeArgs(deps, vals) ==
  [i \in 1..Len(deps) |->
     IF deps[i] = Hole
     THEN IF HolesBefore(deps, i) < Len(vals) THEN vals[HolesBefore(deps, i) + 1]
          ELSE Undefined
     ELSE deps[i]]
  \o (IF Len(vals) > HoleCount(deps) THEN SubSeq(vals, HoleCount(deps) + 1, Len(vals)) ELSE <<>>)

\* ------------------------------------------------------------------- runner
\* The world a resolve call runs in: the objects created so far, the factory
\* bodies invoked by the container (in order), the dependencies examined, the
\* deepest nesting, and the bodies invoked by other bodies through an
\* injected function (inner).
World(id, calls, evs, depth) ==
  [id |-> id, calls |-> calls, evs |-> evs, depth |-> depth, inner |-> <<>>,
   live |-> [registered |-> <<>>, singletons |-> <<>>]]

\* The world of a resolve call on the container whose injectorState object
\* holds `reg` and `sing`: the object is reachable from factory bodies that
\* were given the container.
ResolveWorld(reg, sing, id) ==
  [World(id, <<>>, <<>>, 0) EXCEPT !.live = [registered |-> reg, singletons |-> sing]]

\* Reading an injectorState: the container's own object is read as it is now.
Deref(st, w) == IF st.live THEN [st EXCEPT !.singletons = w.live.singletons] ELSE st

\* updateInjectorState(newState): the fields of newState are assigned to the
\* container's injectorState object.
updateInjectorState(w, st) ==
  IF st.live THEN w ELSE [w EXCEPT !.live.singletons = st.singletons]

CallRecord(name, fid, args, ret) == [name |-> name, fid |-> fid, args |-> args, ret |-> ret]

\* A callable as a JavaScript value: the registered function itself keeps its
\* identity (id), a partial or a wrapper is a new function.
CallableValue(c) ==
  [t |-> "fn", id |-> IF c.k = "raw" THEN c.entry.fid ELSE 0, c |-> c]

RECURSIVE InvokeBy(_, _, _, _)
RECURSIVE runFactory(_, _, _, _, _)
RECURSIVE resolveFactory(_, _, _, _, _, _, _, _)

\* resolve(itemName) called by a factory body on the container it was given,
\* inside try/catch: the container's injectorState object as it is at that
\* moment is resolved against and updated.
resolveFromBody(itemName, w) ==
  LET afterRun(run) == [ok |-> run.ok, val |-> run.val, w |-> run.w]
      afterResolve(r) ==
        IF ~r.ok THEN [ok |-> FALSE, val |-> Undefined, w |-> r.w]
        ELSE CHOOSE out \in {afterRun(run) : run \in
               {runFactory(r.rf, ArgsNone, itemName, r.history,
                           updateInjectorState(r.w, r.st))}} : TRUE
  IN CHOOSE out \in {afterResolve(r) : r \in
       {resolveFactory(InjectorState(w.live.registered, w.live.singletons), itemName,
                       ArgsNone, <<>>, FALSE, <<>>, w, MaxDepth)}} : TRUE

\* Calling a callable with the given arguments, by the container or by the
\* body of another factory (byBody).  A body "call" is
\* function (c) { c(); return c(); }, a body "nested" is
\* function (m) { try { return m.resolve('c'); } catch (e) { return undefined; } }.
InvokeBy(c, vals, w, byBody) ==
  IF c.k \in {"single", "undef"} THEN [val |-> c.val, w |-> w]
  ELSE LET args == IF c.k = "raw" THEN vals ELSE ComposeArgs(c.deps, vals)
           src == EntrySource(c.entry)
           calls == src.body = "call" /\ Len(args) >= 1 /\ args[1].t = "fn"
           nests == src.body = "nested" /\ Len(args) >= 1 /\ args[1].t = "di"
           \* what the body itself calls, evaluated once
           bodyCalls ==
             IF calls
             THEN CHOOSE out \in {InvokeBy(args[1].c, <<>>, first.w, TRUE) :
                                   first \in {InvokeBy(args[1].c, <<>>, w, TRUE)}} : TRUE
             ELSE IF nests THEN resolveFromBody(NameC, w)
             ELSE [val |-> Undefined, w |-> w]
           returns(sub) ==
             CASE src.body = "fresh" -> Obj(sub.w.id + 1)
               [] src.body = "item" -> c.entry.item
               [] src.body = "arg" ->
                    IF Len(args) >= 1 /\ args[1] # Undefined THEN args[1]
                    ELSE IF src.hasDefault THEN DefaultLit ELSE Undefined
               [] src.body = "call" -> IF calls THEN sub.val ELSE Undefined
               [] src.body = "nested" -> IF nests THEN sub.val ELSE Undefined
           done(sub, ret) ==
             [val |-> ret,
              w |-> [sub.w EXCEPT
                       !.id = IF src.body = "fresh" THEN @ + 1 ELSE @,
                       !.calls = IF byBody THEN @
                                 ELSE Append(@, CallRecord(c.name, c.entry.fid, args, ret)),
                       !.inner = IF byBody
                                 THEN Append(@, CallRecord(c.name, c.entry.fid, args, ret))
                                 ELSE @]]
       IN CHOOSE out \in {done(sr[1], sr[2]) : sr \in
            {<<sub, returns(sub)>> : sub \in {bodyCalls}}} : TRUE

Invoke(c, vals, w) == InvokeBy(c, vals, w, FALSE)

\* Variant: a runner that passes undefined for every unfilled placeholder.
runFactoryLenient(c, resolveArgs, itemName, resolveHistory, w) ==
  LET r == Invoke(c, IF c.hasPh
                     THEN [i \in 1..Len(c.ph) |-> UsableArg(resolveArgs, itemName, c.ph[i].name)]
                     ELSE <<>>, w)
  IN [ok |-> TRUE, err |-> NoErr, val |-> r.val, w |-> r.w]

runFactory(c, resolveArgs, itemName, resolveHistory, w) ==
  LET missing == IF ~c.hasPh THEN {}
                 ELSE {i \in 1..Len(c.ph) :
                         /\ UsableArg(resolveArgs, itemName, c.ph[i].name) = Undefined
                         /\ ~c.ph[i].isOptional}
      resolveArgValues ==
        IF ~c.hasPh THEN <<>>
        ELSE [i \in 1..Len(c.ph) |-> UsableArg(resolveArgs, itemName, c.ph[i].name)]
      invoked(r) == [ok |-> TRUE, err |-> NoErr, val |-> r.val, w |-> r.w]
  IN IF missing # {}
     THEN LET first == CHOOSE i \in missing : \A j \in missing : i <= j
          IN [ok |-> FALSE,
              err |-> Err("run", c.ph[first].name, itemName, resolveHistory),
              val |-> Undefined, w |-> w]
     ELSE CHOOSE out \in {invoked(r) : r \in {Invoke(c, resolveArgValues, w)}} : TRUE

\* ----------------------------------------------------------------- resolver
Max(x, y) == IF x >= y THEN x ELSE y
SeqRange(q) == {q[i] : i \in 1..Len(q)}

\* Variant: the state in which the dependencies were resolved is returned.
NonSingletonStateOfDependencies(injectorState, newInjectorState) == newInjectorState

\* The state resolveFactory returns for a factory that is not a singleton:
\* the state it was given, not the one its dependencies were resolved in.
NonSingletonState(injectorState, newInjectorState) == injectorState

ResolveOk(rf, history, st, w) ==
  [ok |-> TRUE, err |-> NoErr, rf |-> rf, history |-> history, st |-> st, w |-> w]
ResolveFail(err, st, w) ==
  [ok |-> FALSE, err |-> err, rf |-> getFactoryForUndefined(NoStr), history |-> <<>>,
   st |-> st, w |-> w]

\* One dependency examined by dependencyInjectFactory: the requesting item, the
\* position and the request, whether the dependency is an item being resolved
\* on the path above, what the given state held for it, and what came of it.
DepEvent(item, idx, req, onPath, inCache, isRegistered, ok, val) ==
  [item |-> item, idx |-> idx, dep |-> req.name, isOptional |-> req.isOptional,
   asFactory |-> req.asFactory, onPath |-> onPath, inCache |-> inCache,
   isRegistered |-> isRegistered, ok |-> ok, val |-> val]

\* Variants of the cycle test: one that looks at the requesting item only, one
\* that never reports a cycle.
IsCyclicSelfOnly(itemName, injectionName, resolveHistory) == itemName = injectionName
IsCyclicNever(itemName, injectionName, resolveHistory) == FALSE

\* The cycle test of the $inject.map callback.
IsCyclic(itemName, injectionName, resolveHistory) ==
  \/ itemName = injectionName
  \/ \E k \in 1..Len(resolveHistory) : resolveHistory[k].name = injectionName

\* Variants: every missing name tolerated, every missing name refused.
MissingOutcomeUndefined(isOptional) == "undefined"
MissingOutcomeThrow(isOptional) == "throw"

\* What resolveFactory does with a name that is not registered.
MissingOutcome(isOptional) == IF isOptional THEN "undefined" ELSE "throw"

RECURSIVE InjectFromShared(_, _, _, _, _)

\* Variant: a callback whose cycle test also looks at every name examined
\* earlier in the same resolve call, as a history array shared by all
\* branches would make it.
InjectFromShared(i, cx, updatedState, dependencies, w) ==
  IF i > Len(cx.items)
  THEN [ok |-> TRUE, err |-> NoErr, deps |-> dependencies, st |-> updatedState, w |-> w]
  ELSE
    LET injectItem == cx.items[i].r
        injectionName == injectItem.name
        isCyclic == \/ IsCyclic(cx.itemName, injectionName, cx.resolveHistory)
                    \/ \E k \in 1..Len(w.evs) : w.evs[k].dep = injectionName
        ev(ok, val) == DepEvent(cx.itemName, i, injectItem,
                                injectionName \in SeqRange(cx.path),
                                injectionName \in DOMAIN cx.injectorState.singletons,
                                injectionName \in DOMAIN cx.injectorState.registered,
                                ok, val)
        failed(err, w2) ==
          [ok |-> FALSE, err |-> err, deps |-> dependencies, st |-> updatedState,
           w |-> [w2 EXCEPT !.evs = Append(@, ev(FALSE, Undefined))]]
        afterRun(res, run) ==
          IF ~run.ok THEN failed(run.err, run.w)
          ELSE InjectFromShared(i + 1, cx, res.st, Append(dependencies, run.val),
                          [run.w EXCEPT !.evs = Append(@, ev(TRUE, run.val))])
        afterResolve(res) ==
          IF ~res.ok THEN failed(res.err, res.w)
          ELSE IF injectItem.asFactory
          THEN InjectFromShared(i + 1, cx, res.st, Append(dependencies, CallableValue(res.rf)),
                          [res.w EXCEPT !.evs = Append(@, ev(TRUE, FnVal(0)))])
          ELSE CHOOSE out \in {afterRun(res, run) : run \in
                 {runFactory(res.rf, cx.resolveArgs, injectionName, cx.resolveHistory, res.w)}} : TRUE
    IN IF injectItem.isPlaceholder
       THEN InjectFromShared(i + 1, cx, updatedState, Append(dependencies, Hole), w)
       ELSE IF isCyclic /\ ~Truthy(Cached(Deref(cx.injectorState, w), injectionName))
       THEN failed(Err("cyclic", injectionName, cx.itemName,
                       addToHistory(cx.resolveHistory, injectionName, "", "", FALSE)), w)
       ELSE CHOOSE out \in {afterResolve(res) : res \in
              {resolveFactory(updatedState, injectionName, cx.resolveArgs, cx.resolveHistory,
                              injectItem.isOptional, cx.path, w, cx.fuel)}} : TRUE

RECURSIVE InjectFromTolerant(_, _, _, _, _)

\* Variant: a callback that injects undefined for a dependency that failed
\* and goes on with the next one.
InjectFromTolerant(i, cx, updatedState, dependencies, w) ==
  IF i > Len(cx.items)
  THEN [ok |-> TRUE, err |-> NoErr, deps |-> dependencies, st |-> updatedState, w |-> w]
  ELSE
    LET injectItem == cx.items[i].r
        injectionName == injectItem.name
        isCyclic == IsCyclic(cx.itemName, injectionName, cx.resolveHistory)
        ev(ok, val) == DepEvent(cx.itemName, i, injectItem,
                                injectionName \in SeqRange(cx.path),
                                injectionName \in DOMAIN cx.injectorState.singletons,
                                injectionName \in DOMAIN cx.injectorState.registered,
                                ok, val)
        failed(err, w2) ==
          InjectFromTolerant(i + 1, cx, updatedState, Append(dependencies, Undefined),
                             [w2 EXCEPT !.evs = Append(@, ev(FALSE, Undefined))])
        afterRun(res, run) ==
          IF ~run.ok THEN failed(run.err, run.w)
          ELSE InjectFromTolerant(i + 1, cx, res.st, Append(dependencies, run.val),
                          [run.w EXCEPT !.evs = Append(@, ev(TRUE, run.val))])
        afterResolve(res) ==
          IF ~res.ok THEN failed(res.err, res.w)
          ELSE IF injectItem.asFactory
          THEN InjectFromTolerant(i + 1, cx, res.st, Append(dependencies, CallableValue(res.rf)),
                          [res.w EXCEPT !.evs = Append(@, ev(TRUE, FnVal(0)))])
          ELSE CHOOSE out \in {afterRun(res, run) : run \in
                 {runFactory(res.rf, cx.resolveArgs, injectionName, cx.resolveHistory, res.w)}} : TRUE
    IN IF injectItem.isPlaceholder
       THEN InjectFromTolerant(i + 1, cx, updatedState, Append(dependencies, Hole), w)
       ELSE IF isCyclic /\ ~Truthy(Cached(Deref(cx.injectorState, w), injectionName))
       THEN failed(Err("cyclic", injectionName, cx.itemName,
                       addToHistory(cx.resolveHistory, injectionName, "", "", FALSE)), w)
       ELSE CHOOSE out \in {afterResolve(res) : res \in
              {resolveFactory(updatedState, injectionName, cx.resolveArgs, cx.resolveHistory,
                              injectItem.isOptional, cx.path, w, cx.fuel)}} : TRUE

RECURSIVE InjectFrom(_, _, _, _, _)

\* The $inject.map callback applied from position i on; cx holds what the
\* callback closes over, updatedState and w are threaded through the calls.
\* (Each nested call is evaluated once and bound, as a const is.)
InjectFrom(i, cx, updatedState, dependencies, w) ==
  IF i > Len(cx.items)
  THEN [ok |-> TRUE, err |-> NoErr, deps |-> dependencies, st |-> updatedState, w |-> w]
  ELSE
    LET injectItem == cx.items[i].r
        injectionName == injectItem.name
        isCyclic == IsCyclic(cx.itemName, injectionName, cx.resolveHistory)
        ev(ok, val) == DepEvent(cx.itemName, i, injectItem,
                                injectionName \in SeqRange(cx.path),
                                injectionName \in DOMAIN cx.injectorState.singletons,
                                injectionName \in DOMAIN cx.injectorState.registered,
                                ok, val)
        failed(err, w2) ==
          [ok |-> FALSE, err |-> err, deps |-> dependencies, st |-> updatedState,
           w |-> [w2 EXCEPT !.evs = Append(@, ev(FALSE, Undefined))]]
        afterRun(res, run) ==
          IF ~run.ok THEN failed(run.err, run.w)
          ELSE InjectFrom(i + 1, cx, res.st, Append(dependencies, run.val),
                          [run.w EXCEPT !.evs = Append(@, ev(TRUE, run.val))])
        afterResolve(res) ==
          IF ~res.ok THEN failed(res.err, res.w)
          ELSE IF injectItem.asFactory
          THEN InjectFrom(i + 1, cx, res.st, Append(dependencies, CallableValue(res.rf)),
                          [res.w EXCEPT !.evs = Append(@, ev(TRUE, FnVal(0)))])
          ELSE CHOOSE out \in {afterRun(res, run) : run \in
                 {runFactory(res.rf, cx.resolveArgs, injectionName, cx.resolveHistory, res.w)}} : TRUE
    IN IF injectItem.isPlaceholder
       THEN InjectFrom(i + 1, cx, updatedState, Append(dependencies, Hole), w)
       ELSE IF isCyclic /\ ~Truthy(Cached(Deref(cx.injectorState, w), injectionName))
       THEN failed(Err("cyclic", injectionName, cx.itemName,
                       addToHistory(cx.resolveHistory, injectionName, "", "", FALSE)), w)
       ELSE CHOOSE out \in {afterResolve(res) : res \in
              {resolveFactory(updatedState, injectionName, cx.resolveArgs, cx.resolveHistory,
                              injectItem.isOptional, cx.path, w, cx.fuel)}} : TRUE

dependencyInjectFactory(injectorState, factory, itemName, resolveArgs, resolveHistory, path, w, fuel) ==
  LET inject == EntryDeco(factory).inject
      cx == [items |-> inject.items, injectorState |-> injectorState, itemName |-> itemName,
             resolveArgs |-> resolveArgs, resolveHistory |-> resolveHistory, path |-> path,
             fuel |-> fuel]
      curried(mapped) ==
        [ok |-> mapped.ok, err |-> mapped.err,
         factory |-> curryFactory(itemName, factory, mapped.deps),
         st |-> mapped.st, w |-> mapped.w]
  IN IF Len(inject.items) = 0
     THEN [ok |-> TRUE, err |-> NoErr, factory |-> RawFactory(itemName, factory),
           st |-> injectorState, w |-> w]
     ELSE CHOOSE out \in {curried(mapped) : mapped \in
            {InjectFrom(1, cx, injectorState, <<>>, w)}} : TRUE

\* path: the items being resolved above this one (kept beside the history the
\* code builds); fuel: the nesting still allowed before the call is cut off and
\* reported as "diverged".
resolveFactory(injectorState, itemName, resolveArgs, resolveHistory, isOptional, path, w, fuel) ==
  LET w1 == [w EXCEPT !.depth = Max(@, Len(path) + 1)]
      registeredFactory == injectorState.registered[itemName]
      deco == EntryDeco(registeredFactory)
      newResolveHistory == addToHistory(resolveHistory, itemName, deco.filename, deco.regSource, FALSE)
      materialized(injectData, run) ==
        LET newInjectorState == Deref(injectData.st, run.w)
            newSingletonInjectorState ==
              [newInjectorState EXCEPT !.singletons = (itemName :> run.val) @@ @,
                                       !.live = FALSE]
        IN IF ~run.ok THEN ResolveFail(run.err, injectorState, run.w)
           ELSE ResolveOk(resolveSingletonAsFactory(newSingletonInjectorState, itemName),
                          newResolveHistory, newSingletonInjectorState, run.w)
      injected(injectData) ==
        LET injectedFactory == injectData.factory
        IN IF ~injectData.ok THEN ResolveFail(injectData.err, injectorState, injectData.w)
           ELSE IF CallableSingleton(injectedFactory)
           THEN CHOOSE out \in {materialized(injectData, run) : run \in
                  {runFactory(injectedFactory, resolveArgs, itemName, newResolveHistory,
                              injectData.w)}} : TRUE
           ELSE ResolveOk(injectedFactory, newResolveHistory,
                          NonSingletonState(injectorState, injectData.st), injectData.w)
  IN IF fuel = 0
     THEN ResolveFail(Err("diverged", itemName, itemName, resolveHistory), injectorState, w1)
     ELSE IF Truthy(Cached(Deref(injectorState, w1), itemName))
     THEN ResolveOk(resolveSingletonAsFactory(Deref(injectorState, w1), itemName),
                    addToHistory(resolveHistory, itemName, "", "", FALSE), injectorState, w1)
     ELSE IF itemName \notin DOMAIN injectorState.registered
     THEN IF MissingOutcome(isOptional) = "undefined"
          THEN ResolveOk(getFactoryForUndefined(itemName),
                         addToHistory(resolveHistory, itemName, "", "", TRUE), injectorState, w1)
          ELSE ResolveFail(Err("not-registered", itemName, itemName,
                               addToHistory(resolveHistory, itemName, "", "", FALSE)),
                           injectorState, w1)
     ELSE CHOOSE out \in {injected(injectData) : injectData \in
            {dependencyInjectFactory(injectorState, registeredFactory, itemName, resolveArgs,
                                     newResolveHistory, Append(path, itemName), w1, fuel - 1)}} : TRUE

\* ----------------------------------------------------------------- index.js
EmptyMap == [x \in {} |-> x]
NoValue == [t |-> "none", id |-> 0]

\* What register() is given: a fixture function or a non-function item.
GivenFn(f) == [k |-> "fn", fid |-> f, item |-> Undefined]
GivenItem(v) == [k |-> "item", fid |-> 0, item |-> v]

LastOp(op, name, given, options, resolveArgs, asFactory, ok, val, err, w, pre, preId) ==
  [op |-> op, name |-> name, given |-> given, options |-> options,
   resolveArgs |-> resolveArgs, asFactory |-> asFactory, ok |-> ok, val |-> val,
   err |-> err, calls |-> w.calls, evs |-> w.evs, depth |-> w.depth,
   inner |-> w.inner, pre |-> pre, preId |-> preId,
   sourceBefore |-> meta.registerSourceFile]
NoWorld == World(0, <<>>, <<>>, 0)

\* Every operation is counted; each specification bounds the count.
Counted == nops' = nops + 1

\* The body calls a resolve made for the factory registered as `name`.
CallsOf(calls, name) == {i \in 1..Len(calls) : calls[i].name = name}
Min(x, y) == IF x <= y THEN x ELSE y

\* Variant: a container that registers another container object as itself.
ConstructedOther ==
  LET r == registerFactory([registerSourceFile |-> "", skipTraceErrors |-> FALSE], DiName,
                           ItemDeclared("index.js"), ItemSource,
                           RegisterOptions(FALSE, "", "index.js", FALSE))
  IN (DiName :> ItemEntry(DiOther, r.deco))

\* factoryDiFactory(): the container registers itself.
Constructed ==
  LET r == registerFactory([registerSourceFile |-> "", skipTraceErrors |-> FALSE], DiName,
                           ItemDeclared("index.js"), ItemSource,
                           RegisterOptions(FALSE, "", "index.js", FALSE))
  IN (DiName :> ItemEntry(DiVal, r.deco))

Init ==
  /\ registered = Constructed
  /\ singletons = EmptyMap
  /\ meta = [registerSourceFile |-> "", skipTraceErrors |-> FALSE]
  /\ fns = [f \in FnIds |-> FnDeclared(f)]
  /\ nextId = 0
  /\ nops = 0
  /\ last = LastOp("init", NoStr, GivenItem(Undefined), NoOptions, ArgsNone, FALSE, TRUE,
                   Undefined, NoErr, NoWorld, EmptyMap, 0)
  /\ returned = [n \in ItemNames |-> NoValue]
  /\ execs = [n \in ItemNames |-> 0]
  /\ regs = [n \in ItemNames |-> 0]
  /\ beforeClear = [n \in ItemNames |-> NoValue]
  /\ other = [registered |-> (DiName :> [Constructed[DiName] EXCEPT !.item = DiOther]),
              singletons |-> EmptyMap,
              meta |-> [registerSourceFile |-> "", skipTraceErrors |-> FALSE]]

\* Variant: a register that writes the registry entry before the factory is
\* checked, so that a failing call leaves the name registered.
RegisterStoringFirst(itemName, given, options) ==
  LET isFn == given.k = "fn"
  IN \E r \in {registerFactory(meta, itemName,
                               IF isFn THEN fns[given.fid] ELSE ItemDeclared(""),
                               IF isFn THEN FnSource(given.fid) ELSE ItemSource,
                               options)} :
     \E entry \in {IF isFn THEN FnEntry(given.fid) ELSE ItemEntry(given.item, r.deco)} :
       /\ Counted
       /\ fns' = IF isFn THEN [fns EXCEPT ![given.fid] = r.deco] ELSE fns
       /\ registered' = (itemName :> entry) @@ registered
       /\ returned' = IF r.ok THEN [n \in ItemNames |-> NoValue] ELSE returned
       /\ execs' = IF r.ok THEN [execs EXCEPT ![itemName] = 0] ELSE execs
       /\ regs' = IF r.ok THEN [regs EXCEPT ![itemName] = Min(2, @ + 1)] ELSE regs
       /\ beforeClear' = IF r.ok THEN [beforeClear EXCEPT ![itemName] = NoValue]
                         ELSE beforeClear
       /\ last' = LastOp("register", itemName, given, options, ArgsNone, FALSE, r.ok,
                         Undefined, r.err, NoWorld, singletons, nextId)
       /\ UNCHANGED <<other, singletons, meta, nextId>>

\* register(itemName, factoryOrItem, options), itemName a non-empty string.
Register(itemName, given, options) ==
  LET isFn == given.k = "fn"
  IN \E r \in {registerFactory(meta, itemName,
                               IF isFn THEN fns[given.fid] ELSE ItemDeclared(""),
                               IF isFn THEN FnSource(given.fid) ELSE ItemSource,
                               options)} :
     \E entry \in {IF isFn THEN FnEntry(given.fid) ELSE ItemEntry(given.item, r.deco)} :
       /\ Counted
       /\ fns' = IF isFn THEN [fns EXCEPT ![given.fid] = r.deco] ELSE fns
       /\ registered' = IF r.ok THEN (itemName :> entry) @@ registered ELSE registered
       /\ returned' = IF r.ok THEN [n \in ItemNames |-> NoValue] ELSE returned
       /\ execs' = IF r.ok THEN [execs EXCEPT ![itemName] = 0] ELSE execs
       /\ regs' = IF r.ok THEN [regs EXCEPT ![itemName] = Min(2, @ + 1)] ELSE regs
       /\ beforeClear' = IF r.ok THEN [beforeClear EXCEPT ![itemName] = NoValue]
                         ELSE beforeClear
       /\ last' = LastOp("register", itemName, given, options, ArgsNone, FALSE, r.ok,
                         Undefined, r.err, NoWorld, singletons, nextId)
       /\ UNCHANGED <<other, singletons, meta, nextId>>

\* Variant: a resolve that stores every singleton in the container's cache
\* as soon as it is materialized, so that a failing call keeps them.
ResolveStoringEagerly(itemName, resolveArgs, asFactory) ==
  /\ Counted
  /\ \E r \in {resolveFactory(InjectorState(registered, singletons), itemName, resolveArgs,
                             <<>>, FALSE, <<>>, ResolveWorld(registered, singletons, nextId),
                             MaxDepth)} :
     \E run \in {IF r.ok /\ ~asFactory
                 THEN runFactory(r.rf, resolveArgs, itemName, r.history,
                                 updateInjectorState(r.w, r.st))
                 ELSE [ok |-> TRUE, err |-> NoErr,
                       val |-> IF r.ok THEN CallableValue(r.rf) ELSE Undefined,
                       w |-> IF r.ok THEN updateInjectorState(r.w, r.st) ELSE r.w]} :
       LET ok == r.ok /\ run.ok
           val == IF ok THEN run.val ELSE Undefined
           err == IF ~r.ok THEN r.err ELSE run.err
           stored == {k \in 1..Len(run.w.calls) :
                        /\ run.w.calls[k].name \in DOMAIN registered
                        /\ EntryDeco(registered[run.w.calls[k].name]).singleton}
           eager == [n \in {run.w.calls[k].name : k \in stored} |->
                       run.w.calls[CHOOSE k \in stored : run.w.calls[k].name = n].ret]
       IN /\ singletons' = IF ok THEN run.w.live.singletons ELSE eager @@ singletons
          /\ nextId' = run.w.id
          /\ returned' = IF ok /\ ~asFactory THEN [returned EXCEPT ![itemName] = val]
                         ELSE returned
          /\ execs' = [n \in ItemNames |->
                         Min(2, execs[n] + Cardinality(CallsOf(run.w.calls, n)))]
          /\ last' = LastOp("resolve", itemName, GivenItem(Undefined), NoOptions, resolveArgs,
                            asFactory, ok, val, err, run.w, singletons, nextId)
          /\ UNCHANGED <<other, registered, meta, fns, regs, beforeClear>>

\* resolve(itemName, resolveArgs, {asFactory}), itemName a non-empty string.
Resolve(itemName, resolveArgs, asFactory) ==
  /\ Counted
  /\ \E r \in {resolveFactory(InjectorState(registered, singletons), itemName, resolveArgs,
                             <<>>, FALSE, <<>>, ResolveWorld(registered, singletons, nextId),
                             MaxDepth)} :
     \E run \in {IF r.ok /\ ~asFactory
                 THEN runFactory(r.rf, resolveArgs, itemName, r.history,
                                 updateInjectorState(r.w, r.st))
                 ELSE [ok |-> TRUE, err |-> NoErr,
                       val |-> IF r.ok THEN CallableValue(r.rf) ELSE Undefined,
                       w |-> IF r.ok THEN updateInjectorState(r.w, r.st) ELSE r.w]} :
       LET ok == r.ok /\ run.ok
           val == IF ok THEN run.val ELSE Undefined
           err == IF ~r.ok THEN r.err ELSE run.err
       IN /\ singletons' = run.w.live.singletons
          /\ nextId' = run.w.id
          /\ returned' = IF ok /\ ~asFactory THEN [returned EXCEPT ![itemName] = val]
                         ELSE returned
          /\ execs' = [n \in ItemNames |->
                         Min(2, execs[n] + Cardinality(CallsOf(run.w.calls, n)))]
          /\ last' = LastOp("resolve", itemName, GivenItem(Undefined), NoOptions, resolveArgs,
                            asFactory, ok, val, err, run.w, singletons, nextId)
          /\ UNCHANGED <<other, registered, meta, fns, regs, beforeClear>>

\* setRegisterSource(registerSourceFile); returns the previous one, or null.
\* Variant: a setRegisterSource that returns the label it has just set.
SetRegisterSourceReturnsNew(registerSourceFile) ==
  /\ Counted
  /\ meta' = [meta EXCEPT !.registerSourceFile = registerSourceFile]
  /\ last' = LastOp("setRegisterSource", NoStr, GivenItem(Undefined), NoOptions, ArgsNone,
                    FALSE, TRUE,
                    IF SourceGiven(registerSourceFile) THEN StrVal(registerSourceFile)
                    ELSE NullVal,
                    NoErr, NoWorld, singletons, nextId)
  /\ UNCHANGED <<other, registered, singletons, fns, nextId, returned, execs, regs, beforeClear>>

SetRegisterSource(registerSourceFile) ==
  /\ Counted
  /\ meta' = [meta EXCEPT !.registerSourceFile = registerSourceFile]
  /\ last' = LastOp("setRegisterSource", NoStr, GivenItem(Undefined), NoOptions, ArgsNone,
                    FALSE, TRUE,
                    IF SourceGiven(meta.registerSourceFile)
                    THEN StrVal(meta.registerSourceFile) ELSE NullVal,
                    NoErr, NoWorld, singletons, nextId)
  /\ UNCHANGED <<other, registered, singletons, fns, nextId, returned, execs, regs, beforeClear>>

\* setSkipTraceErrors(skipTraceErrors)
SetSkipTraceErrors(skipTraceErrors) ==
  /\ Counted
  /\ meta' = [meta EXCEPT !.skipTraceErrors = skipTraceErrors]
  /\ last' = LastOp("setSkipTraceErrors", NoStr, GivenItem(Undefined), NoOptions, ArgsNone,
                    FALSE, TRUE, Undefined, NoErr, NoWorld, singletons, nextId)
  /\ UNCHANGED <<other, registered, singletons, fns, nextId, returned, execs, regs, beforeClear>>

\* Variant: a clearSingletons that leaves the cache as it is.
ClearSingletonsKeep ==
  /\ Counted
  /\ last' = LastOp("clear", NoStr, GivenItem(Undefined), NoOptions, ArgsNone, FALSE, TRUE,
                    Undefined, NoErr, NoWorld, singletons, nextId)
  /\ beforeClear' = [n \in ItemNames |->
                       IF returned[n] # NoValue THEN returned[n] ELSE beforeClear[n]]
  /\ returned' = [n \in ItemNames |-> NoValue]
  /\ execs' = [n \in ItemNames |-> 0]
  /\ UNCHANGED <<other, registered, singletons, meta, fns, nextId, regs>>

\* Variant: a clearSingletons that also empties the registry.
ClearSingletonsAndRegistry ==
  /\ Counted
  /\ singletons' = EmptyMap
  /\ registered' = Constructed
  /\ returned' = [n \in ItemNames |-> NoValue]
  /\ execs' = [n \in ItemNames |-> 0]
  /\ beforeClear' = [n \in ItemNames |->
                       IF returned[n] # NoValue THEN returned[n] ELSE beforeClear[n]]
  /\ last' = LastOp("clear", NoStr, GivenItem(Undefined), NoOptions, ArgsNone, FALSE, TRUE,
                    Undefined, NoErr, NoWorld, singletons, nextId)
  /\ UNCHANGED <<other, meta, fns, nextId, regs>>

ClearSingletons ==
  /\ Counted
  /\ singletons' = EmptyMap
  /\ returned' = [n \in ItemNames |-> NoValue]
  /\ execs' = [n \in ItemNames |-> 0]
  /\ beforeClear' = [n \in ItemNames |->
                       IF returned[n] # NoValue THEN returned[n] ELSE beforeClear[n]]
  /\ last' = LastOp("clear", NoStr, GivenItem(Undefined), NoOptions, ArgsNone, FALSE, TRUE,
                    Undefined, NoErr, NoWorld, singletons, nextId)
  /\ UNCHANGED <<other, registered, meta, fns, nextId, regs>>

\* ------------------------------------------------------------------- inputs
OptSkip == RegisterOptions(FALSE, "", "", TRUE)
OptForce == RegisterOptions(TRUE, "", "", TRUE)

\* The registrations tried: <<item name, what is registered, options>>.
RegisterInputs ==
  {<<NameA, GivenFn(f), OptSkip>> : f \in {FnOnBC, FnOnCB, FnOptC}}
  \cup {<<NameB, GivenFn(f), OptSkip>> : f \in {FnOnA, FnOnC, FnDefC}}
  \cup {<<NameC, GivenFn(f), OptSkip>> : f \in {FnLeaf, FnLeafS, FnOnC, FnOptZ}}
  \cup {<<NameC, GivenItem(v), OptSkip>> : v \in {Lit(0), Lit(1)}}
  \cup {<<NameC, GivenFn(FnLeaf), OptForce>>, <<NameA, GivenFn(FnOnBC), NoOptions>>}

RegisterSources == {"app.js"}

ResolveArgsInputs == {ArgsNone, ArgsBags(NameC :> (NameZ :> Lit(2)))}

Next ==
  \/ \E in \in RegisterInputs : nops < MaxOps /\ Register(in[1], in[2], in[3])
  \/ \E n \in ItemNames, ra \in ResolveArgsInputs, af \in BOOLEAN :
       nops < MaxOps /\ Resolve(n, ra, af)
  \/ nops < MaxOps /\ ClearSingletons
  \/ \E src \in RegisterSources : nops < MaxOps /\ SetRegisterSource(src)
  \/ \E skip \in BOOLEAN : nops < MaxOps /\ SetSkipTraceErrors(skip)

Spec == Init /\ [][Next]_vars

\* ------------------------------------------------------------- properties
IsRegistered(n) == n \in DOMAIN registered
\* n is registered as a factory function (not as a plain item) ...
IsFactory(n) == IsRegistered(n) /\ registered[n].fid # 0
\* ... that carries $singleton, or does not.
IsSingletonFactory(n) == IsFactory(n) /\ EntryDeco(registered[n]).singleton
IsPlainFactory(n) == IsFactory(n) /\ ~EntryDeco(registered[n]).singleton
\* The body of the factory registered as n builds a new object at each call.
BuildsFresh(n) == IsFactory(n) /\ FnSource(registered[n].fid).body = "fresh"

\* The last operation was resolve(n, ...) returning a value (not a factory).
Resolved(n) == last.op = "resolve" /\ last.name = n /\ ~last.asFactory /\ last.ok
FailedWith(kind, name) == ~last.ok /\ last.err.kind = kind /\ last.err.name = name

\* The dependencies of the fixtures as their source declares them, in order.
ExpectedDeps(f) ==
  CASE f = FnOnC  -> <<NameC>>
    [] f = FnOnBC -> <<NameB, NameC>>
    [] f = FnOnA  -> <<NameA>>
    [] f = FnOptC -> <<NameC>>
    [] f = FnDefC -> <<NameC>>
    [] f = FnOnCB -> <<NameC, NameB>>
    [] OTHER -> <<>>

\* v is what the container holds for dependency d when the k-th body call of
\* the last resolve is made: the result of an earlier body call of d in this
\* resolve, the value cached for d before the resolve, or nothing when d is
\* not registered.
ProducedFor(d, v, k) ==
  \/ \E j \in 1..(k - 1) : last.calls[j].name = d /\ last.calls[j].ret = v
  \/ d \in DOMAIN last.pre /\ last.pre[d] = v
  \/ ~IsRegistered(d) /\ v = Undefined

\* C1: a factory registered as a singleton returns the reference-identical
\* value from any two resolve(name) calls that have no clearSingletons and no
\* registration between them.
C1_SingletonSameInstance ==
  [][\A n \in ItemNames :
       (/\ IsSingletonFactory(n)
        /\ returned[n] # NoValue
        /\ last'.op = "resolve" /\ last'.name = n /\ ~last'.asFactory /\ last'.ok)
       => last'.val = returned[n]]_vars

\* C2: between two clearSingletons calls the body of a singleton factory runs
\* at most once, however many items request it, within one resolve or across
\* several resolves.  (Stated for the factories that build a new object, whose
\* instances are never falsy.)
C2_SingletonBodyAtMostOnce ==
  \A n \in ItemNames : (IsSingletonFactory(n) /\ BuildsFresh(n)) => execs[n] <= 1

\* C3: after register(name, v) of a non-function v on a name not registered
\* before, every resolve(name) succeeds and returns exactly v, falsy values and
\* resolves after clearSingletons included.
C3_ItemResolvesToItself ==
  \A n \in ItemNames :
    (/\ last.op = "resolve" /\ last.name = n /\ ~last.asFactory
     /\ IsRegistered(n) /\ registered[n].fid = 0 /\ regs[n] = 1)
    => last.ok /\ last.val = registered[n].item

C3_Witness ==
  /\ Resolved(NameC) /\ regs[NameC] = 1
  /\ registered[NameC].fid = 0 /\ registered[NameC].item = Lit(0)
  /\ last.val = Lit(0) /\ beforeClear[NameC] = Lit(0)

\* C4: every successful resolve(name) of a factory that is not a singleton
\* invokes the factory body exactly once and returns the result of that call.
C4_PlainFactoryRunsEachTime ==
  \A n \in ItemNames :
    (Resolved(n) /\ IsPlainFactory(n))
    => /\ Cardinality(CallsOf(last.calls, n)) = 1
       /\ \A i \in CallsOf(last.calls, n) : last.val = last.calls[i].ret

\* C5: clearSingletons empties the singleton cache and leaves the registry,
\* the settings and the factories alone; a singleton factory resolved after the
\* clear has had its body executed again and returns an instance other than
\* the one returned before the clear.
C5_ClearEmptiesCacheOnly ==
  /\ [][last'.op = "clear"
        => /\ singletons' = EmptyMap
           /\ registered' = registered /\ meta' = meta /\ fns' = fns]_vars
  /\ [](\A n \in ItemNames :
          (Resolved(n) /\ IsSingletonFactory(n) /\ beforeClear[n] # NoValue)
          => /\ execs[n] >= 1
             /\ BuildsFresh(n) => last.val # beforeClear[n])

C5_Witness ==
  /\ Resolved(NameC) /\ IsSingletonFactory(NameC) /\ BuildsFresh(NameC)
  /\ beforeClear[NameC] = Obj(1) /\ last.val = Obj(2)
  /\ NameC \notin DOMAIN last.pre /\ NameC \in DOMAIN singletons

\* C6: a factory body is called with the values of its declared dependencies
\* bound to its parameters in declared order, for an explicit $inject list and
\* for $inject = true.
C6_DependenciesInDeclaredOrder ==
  last.op = "resolve" =>
    \A k \in 1..Len(last.calls) :
      LET call == last.calls[k]
          deps == IF call.fid = 0 THEN <<>> ELSE ExpectedDeps(call.fid)
      IN /\ Len(call.args) >= Len(deps)
         /\ \A i \in 1..Len(deps) : ProducedFor(deps[i], call.args[i], k)

C6_Witness ==
  /\ Resolved(NameA)
  /\ \E k \in 1..Len(last.calls) :
       /\ last.calls[k].fid = FnOnBC
       /\ last.calls[k].args[1].t = "obj" /\ last.calls[k].args[2].t = "obj"
       /\ last.calls[k].args[1] # last.calls[k].args[2]
       /\ \E j \in 1..(k - 1) : last.calls[j].name = NameB
                                /\ last.calls[j].ret = last.calls[k].args[1]

\* C7: when a dependency examined during a resolve is an item being resolved
\* on the path above (the requesting item included) and the singleton cache
\* has no entry for it, the resolve fails with a cyclic-dependency error naming
\* that dependency; with a depending on b and b depending on a, resolve('a')
\* fails naming 'a'.
C7_CyclicDependencyFails ==
  last.op = "resolve" =>
    /\ \A i \in 1..Len(last.evs) :
         (last.evs[i].onPath /\ ~last.evs[i].inCache)
         => FailedWith("cyclic", last.evs[i].dep)
    /\ (/\ last.name = NameA
        /\ IsFactory(NameA) /\ registered[NameA].fid = FnOnBC
        /\ IsFactory(NameB) /\ registered[NameB].fid = FnOnA
        /\ DOMAIN last.pre \cap {NameA, NameB} = {})
       => FailedWith("cyclic", NameA)

C7_Witness ==
  /\ last.op = "resolve" /\ last.name = NameA /\ FailedWith("cyclic", NameA)
  /\ \E i \in 1..Len(last.evs) :
       last.evs[i].item = NameB /\ last.evs[i].dep = NameA /\ last.evs[i].onPath

\* C8: every resolve call terminates, cyclic and self-dependent registries
\* included: the nesting of resolveFactory calls never exceeds the number of
\* registered names plus one.
C8_ResolveTerminates ==
  /\ last.err.kind # "diverged"
  /\ last.depth <= Cardinality(DOMAIN registered) + 1

C8_Witness ==
  /\ last.op = "resolve" /\ last.name = NameC
  /\ IsFactory(NameC) /\ registered[NameC].fid = FnOnC
  /\ NameC \notin DOMAIN last.pre
  /\ ~last.ok /\ last.depth = 1

\* The names item n depends on, and those it requires.
DepsOf(n) ==
  IF ~IsRegistered(n) THEN {}
  ELSE LET items == EntryDeco(registered[n]).inject.items
       IN {items[i].r.name : i \in {j \in 1..Len(items) : ~items[j].r.isPlaceholder}}
RequiredDepsOf(n) ==
  IF ~IsRegistered(n) THEN {}
  ELSE LET items == EntryDeco(registered[n]).inject.items
       IN {items[i].r.name : i \in {j \in 1..Len(items) :
                                      ~items[j].r.isPlaceholder /\ ~items[j].r.isOptional}}
DepsOfAll(S) == S \cup UNION {DepsOf(x) : x \in S}
\* n and everything below it in the dependency graph.
Below(n) == DepsOfAll(DepsOfAll(DepsOfAll(DepsOfAll({n}))))
\* The unregistered names required by n or by something below it.
MissingBelow(n) == {m \in UNION {RequiredDepsOf(x) : x \in Below(n)} : ~IsRegistered(m)}

C10_OptionalDependency ==
  last.op = "resolve" =>
    /\ \A k \in 1..Len(last.calls) :
         last.calls[k].fid \in {FnOptC, FnDefC}
         => /\ Len(last.calls[k].args) >= 1
            /\ IF IsRegistered(NameC)
               THEN /\ ProducedFor(NameC, last.calls[k].args[1], k)
                    /\ \/ NameC \in DOMAIN last.pre
                       \/ \E j \in 1..(k - 1) : last.calls[j].name = NameC
               ELSE last.calls[k].args[1] = Undefined
    /\ \A n \in ItemNames :
         (/\ last.name = n /\ IsFactory(n) /\ registered[n].fid \in {FnOptC, FnDefC}
          /\ ~IsRegistered(NameC))
         => last.ok
    /\ \A i \in 1..Len(last.evs) :
         (last.evs[i].isOptional /\ ~last.evs[i].isRegistered)
         => last.evs[i].ok /\ last.evs[i].val = Undefined

C10_Witness ==
  /\ Resolved(NameB) /\ registered[NameB].fid = FnDefC /\ ~IsRegistered(NameC)
  /\ Len(last.calls) = 1 /\ last.calls[1].args = <<Undefined>>
  /\ last.val = DefaultLit

\* C16: after register(n, x) and then register(n, y), resolve(n) yields what y
\* produces and never what x produced, also when n was resolved in between: a
\* plain value y is returned itself, and a factory y has run its body since it
\* was registered.
C16_ReRegistrationOverwrites ==
  \A n \in ItemNames :
    (Resolved(n) /\ regs[n] = 2)
    => /\ registered[n].fid = 0 => last.val = registered[n].item
       /\ IsFactory(n) => execs[n] >= 1
       /\ BuildsFresh(n) => last.val.t = "obj"

\* ----------------------------------------------------- placeholder arguments
\* A second specification: registrations of factories with placeholders and
\* resolves with the argument bags that matter for them.
MaxArgOps == 4      \* container operations per behaviour of SpecArgs

ZBag(v) == (NameZ :> v)

ArgsInputs ==
  {ArgsNone, ArgsOther}
  \cup {ArgsBags(bags) : bags \in
         {(NameC :> ZBag(Lit(2))),
          (CommonKey :> ZBag(Lit(3))),
          (NameC :> ZBag(Lit(2))) @@ (CommonKey :> ZBag(Lit(3))),
          (NameC :> ZBag(Lit(0))) @@ (CommonKey :> ZBag(Lit(3))),
          (NameC :> ZBag(Undefined)) @@ (CommonKey :> ZBag(Lit(3))),
          (NameA :> ZBag(Lit(4))),
          (NameB :> ZBag(Lit(1))),
          (NameB :> ZBag(Lit(1))) @@ (NameC :> ZBag(Lit(2))),
          (NameB :> ZBag(Lit(1))) @@ (CommonKey :> ZBag(Lit(3)))}}

ArgRegisterInputs ==
  {<<NameC, GivenFn(FnPhZ), OptSkip>>, <<NameC, GivenFn(FnPhZ), OptForce>>,
   <<NameC, GivenFn(FnOptZ), OptSkip>>, <<NameB, GivenFn(FnOnCPhZ), OptSkip>>,
   <<NameA, GivenFn(FnOnBC), OptSkip>>}

NextArgs ==
  \/ \E in \in ArgRegisterInputs : nops < MaxArgOps /\ Register(in[1], in[2], in[3])
  \/ \E n \in ItemNames, ra \in ArgsInputs : nops < MaxArgOps /\ Resolve(n, ra, FALSE)

SpecArgs == Init /\ [][NextArgs]_vars

\* What the last resolve call was given for placeholder p under `key`
\* (undefined when it was given nothing there), and whether the bag under
\* `key` has p as a key at all.
HasKey(key, p) ==
  /\ last.resolveArgs.k = "bags"
  /\ key \in DOMAIN last.resolveArgs.bags
  /\ p \in DOMAIN last.resolveArgs.bags[key]
Given(key, p) == IF HasKey(key, p) THEN last.resolveArgs.bags[key][p] ELSE Undefined

\* The position of the placeholder z among the parameters of a fixture.
PlaceholderPos(f) ==
  CASE f \in {FnPhZ, FnOptZ} -> 1
    [] f = FnOnCPhZ -> 2
    [] OTHER -> 0

\* The item was in the singleton cache, with a truthy value, before the last
\* resolve.
WasCached(n) == n \in DOMAIN last.pre /\ Truthy(last.pre[n])

\* C11 as stated: a placeholder is bound from the bag of the item when that
\* defines it and otherwise from the shared bag.
C11_AsStated ==
  last.op = "resolve" =>
    \A k \in 1..Len(last.calls) :
      LET call == last.calls[k]
          pos == PlaceholderPos(call.fid)
      IN pos > 0 =>
           /\ Given(call.name, NameZ) # Undefined
              => call.args[pos] = Given(call.name, NameZ)
           /\ (Given(call.name, NameZ) = Undefined /\ Given(CommonKey, NameZ) # Undefined)
              => call.args[pos] = Given(CommonKey, NameZ)

\* C11 (amended): a placeholder is bound from the bag of the item when that
\* bag has the placeholder as a key, whatever the value (undefined included),
\* and from the shared bag otherwise; so when both define it the value of the
\* item's bag is passed.
C11_PlaceholderBinding ==
  last.op = "resolve" =>
    \A k \in 1..Len(last.calls) :
      LET call == last.calls[k]
          pos == PlaceholderPos(call.fid)
      IN pos > 0 =>
           /\ Len(call.args) >= pos
           /\ call.args[pos] = IF HasKey(call.name, NameZ) THEN Given(call.name, NameZ)
                               ELSE Given(CommonKey, NameZ)

C11_Witness ==
  /\ Resolved(NameC) /\ registered[NameC].fid = FnPhZ
  /\ Given(NameC, NameZ) = Lit(2) /\ Given(CommonKey, NameZ) = Lit(3)
  /\ Len(last.calls) = 1 /\ last.calls[1].args = <<Lit(2)>>

\* C12 as stated: with no defined value under the item's key or under
\* 'common', a resolve of an item with a required placeholder fails with the
\* binding error naming the item and the placeholder, and one with an optional
\* placeholder succeeds.
C12_AsStated ==
  \A n \in ItemNames :
    (/\ last.op = "resolve" /\ last.name = n /\ ~last.asFactory /\ IsFactory(n)
     /\ Given(n, NameZ) = Undefined /\ Given(CommonKey, NameZ) = Undefined)
    => /\ registered[n].fid = FnPhZ
          => FailedWith("run", NameZ) /\ last.err.item = n
       /\ registered[n].fid = FnOptZ => last.ok

\* C12 (amended): whenever a factory is invoked by the container, a
\* placeholder with no defined value under the item's key or under 'common' is
\* passed as undefined if it is optional, and fails the resolve with the
\* binding error naming the item and the placeholder if it is required; an item
\* served from the singleton cache is not invoked and binds no placeholder.
C12_UnfilledPlaceholder ==
  /\ \A k \in 1..Len(last.calls) :
       last.calls[k].fid \in {FnPhZ, FnOnCPhZ}
       => last.calls[k].args[PlaceholderPos(last.calls[k].fid)] # Undefined
  /\ \A n \in ItemNames :
       (/\ last.op = "resolve" /\ last.name = n /\ ~last.asFactory /\ IsFactory(n)
        /\ Given(n, NameZ) = Undefined /\ Given(CommonKey, NameZ) = Undefined
        /\ ~WasCached(n))
       => /\ registered[n].fid = FnPhZ
             => FailedWith("run", NameZ) /\ last.err.item = n
          /\ registered[n].fid = FnOptZ
             => /\ last.ok /\ last.val = Undefined
                /\ \E k \in 1..Len(last.calls) : last.calls[k].args = <<Undefined>>

C12_Witness ==
  /\ last.op = "resolve" /\ last.name = NameC
  /\ IsRegistered(NameC) /\ registered[NameC].fid = FnPhZ
  /\ HasKey(NameA, NameZ) /\ ~WasCached(NameC)
  /\ FailedWith("run", NameZ) /\ last.err.item = NameC /\ last.calls = <<>>

\* C13: a placeholder of a dependency is filled from the bag keyed by the
\* dependency's own name (or from 'common'), never from the bag of the item
\* resolve was called for or of another item; without such a value a required
\* placeholder of the dependency fails the resolve even when the bag of the
\* top-level item defines a placeholder of the same name.
C13_ArgsReachDependencies ==
  last.op = "resolve" =>
    /\ \A k \in 1..Len(last.calls) :
         LET call == last.calls[k]
             pos == PlaceholderPos(call.fid)
         IN (pos > 0 /\ call.name # last.name)
            => /\ call.args[pos] \in {Given(call.name, NameZ), Given(CommonKey, NameZ)}
               /\ Given(call.name, NameZ) # Undefined
                  => call.args[pos] = Given(call.name, NameZ)
    /\ (/\ last.name = NameB /\ IsFactory(NameB) /\ registered[NameB].fid = FnOnCPhZ
        /\ IsFactory(NameC) /\ registered[NameC].fid = FnPhZ
        /\ ~WasCached(NameB) /\ ~WasCached(NameC)
        /\ Given(NameC, NameZ) = Undefined /\ Given(CommonKey, NameZ) = Undefined)
       => FailedWith("run", NameZ) /\ last.err.item = NameC

C13_Witness ==
  /\ Resolved(NameB) /\ registered[NameB].fid = FnOnCPhZ /\ registered[NameC].fid = FnPhZ
  /\ Len(last.calls) = 2
  /\ last.calls[1].name = NameC /\ last.calls[1].args = <<Lit(2)>>
  /\ last.calls[2].name = NameB /\ last.calls[2].args = <<Lit(2), Lit(1)>>

\* ------------------------------------------------------ factories as values
\* Resolving as a factory, and dependencies requested as a factory.
MaxFactoryOps == 5

FactoryRegisterInputs ==
  {<<NameC, GivenItem(Lit(1)), OptSkip>>, <<NameC, GivenFn(FnLeaf), OptSkip>>,
   <<NameC, GivenFn(FnLeafS), OptSkip>>, <<NameA, GivenFn(FnOnCF), OptSkip>>}

NextFactory ==
  \/ \E in \in FactoryRegisterInputs :
       nops < MaxFactoryOps /\ Register(in[1], in[2], in[3])
  \/ \E n \in {NameA, NameC}, af \in BOOLEAN :
       nops < MaxFactoryOps /\ Resolve(n, ArgsNone, af)

SpecFactory == Init /\ [][NextFactory]_vars

\* The last operation was resolve(n, ..., {asFactory: true}) returning.
ResolvedAsFactory(n) == last.op = "resolve" /\ last.name = n /\ last.asFactory /\ last.ok

\* C17: resolve(n, args, {asFactory: true}) on a registered non-singleton
\* factory returns a function and does not invoke the body of n; when the
\* factory declares no parameters, the function returned is the very function
\* that was given to register.
C17_AsFactoryReturnsFunction ==
  \A n \in ItemNames :
    (ResolvedAsFactory(n) /\ IsPlainFactory(n))
    => /\ last.val.t = "fn"
       /\ CallsOf(last.calls, n) = {} /\ CallsOf(last.inner, n) = {}
       /\ FnSource(registered[n].fid).paramText = <<>>
          => last.val = CallableValue(RawFactory(n, registered[n]))

\* C18: a dependent whose $inject asks for 'c()' receives a function for c;
\* when c is registered as a non-singleton factory, the container does not
\* invoke the body of c while it resolves the dependent, and each call the
\* dependent makes of the function runs the factory registered as c and
\* yields what that run produced.
C18_DependencyAsFactory ==
  \A n \in ItemNames :
    (Resolved(n) /\ IsRegistered(n) /\ registered[n].fid = FnOnCF /\ IsPlainFactory(NameC))
    => /\ \A k \in CallsOf(last.calls, n) : last.calls[k].args[1].t = "fn"
       /\ CallsOf(last.calls, NameC) = {}
       /\ Len(last.inner) = 2
       /\ \A k \in 1..Len(last.inner) :
            /\ last.inner[k].name = NameC
            /\ last.inner[k].fid = registered[NameC].fid
            /\ BuildsFresh(NameC) => last.inner[k].ret.t = "obj"
       /\ Len(last.inner) = 2 => last.val = last.inner[2].ret

\* ------------------------------------------------------------- item names
\* What a caller may pass as itemName: a string, the value false, or an array
\* holding one string (typeof 'object'; as a property key it reads as that
\* string).
MaxNameOps == 4

NameStr(s) == [k |-> "str", s |-> s]
NameFalse == [k |-> "false", s |-> NoStr]
NameArr(s) == [k |-> "arr", s |-> s]
NameTruthy(nm) == IF nm.k = "str" THEN nm.s # NoStr ELSE nm.k = "arr"

\* Variant: only the falsy names are rejected.
validateItemNameFalsyOnly(nm) ==
  IF ~NameTruthy(nm) THEN Err("no-name", NoStr, NoStr, <<>>) ELSE NoErr

\* The error the first lines of register and of resolve throw, if any.
validateItemName(nm) ==
  IF ~NameTruthy(nm) THEN Err("no-name", NoStr, NoStr, <<>>)
  ELSE IF nm.k # "str" THEN Err("name-not-string", NoStr, NoStr, <<>>)
  ELSE NoErr

\* register(itemName, factoryOrItem, options) with any itemName.
RegisterNamed(nm, given, options) ==
  IF validateItemName(nm).kind = "none" THEN Register(nm.s, given, options)
  ELSE /\ Counted
       /\ last' = LastOp("register", nm.s, given, options, ArgsNone, FALSE, FALSE, Undefined,
                         validateItemName(nm), NoWorld, singletons, nextId)
       /\ UNCHANGED <<other, registered, singletons, meta, fns, nextId, returned, execs, regs,
                      beforeClear>>

\* resolve(itemName, resolveArgs, {asFactory}) with any itemName.
ResolveNamed(nm, resolveArgs, asFactory) ==
  IF validateItemName(nm).kind = "none" THEN Resolve(nm.s, resolveArgs, asFactory)
  ELSE /\ Counted
       /\ last' = LastOp("resolve", nm.s, GivenItem(Undefined), NoOptions, resolveArgs,
                         asFactory, FALSE, Undefined, validateItemName(nm), NoWorld,
                         singletons, nextId)
       /\ UNCHANGED <<other, registered, singletons, meta, fns, nextId, returned, execs, regs,
                      beforeClear>>

NameInputs == {NameStr(NameC), NameStr(NoStr), NameFalse, NameArr(NameC)}
BadNameInputs == {NameStr(NoStr), NameFalse, NameArr(NameC)}
NameGivens == {GivenFn(FnLeafS), GivenItem(Lit(1)), GivenFn(FnLeaf)}

NextNames ==
  \/ \E nm \in NameInputs, g \in NameGivens :
       nops < MaxNameOps /\ RegisterNamed(nm, g, OptSkip)
  \/ \E nm \in NameInputs, af \in BOOLEAN :
       nops < MaxNameOps /\ ResolveNamed(nm, ArgsNone, af)
  \/ nops < MaxNameOps /\ ClearSingletons

SpecNames == Init /\ [][NextNames]_vars

\* C19: a call of register or of resolve whose item name is falsy (false, the
\* empty string) or is not a string fails, and leaves the registry, the
\* singleton cache and the registered functions as they were.
C19_InvalidNameRejected ==
  [][\A nm \in BadNameInputs :
       (\/ \E g \in NameGivens : RegisterNamed(nm, g, OptSkip)
        \/ \E af \in BOOLEAN : ResolveNamed(nm, ArgsNone, af))
       => /\ ~last'.ok
          /\ last'.err.kind \in {"no-name", "name-not-string"}
          /\ registered' = registered
          /\ singletons' = singletons
          /\ fns' = fns]_vars

\* A resolve with an array as name has failed on a container that holds a
\* registration and a cached singleton for the string in it.
C19_Witness ==
  /\ last.op = "resolve" /\ ~last.ok /\ last.err.kind = "name-not-string"
  /\ last.name = NameC
  /\ IsRegistered(NameC) /\ NameC \in DOMAIN singletons

\* -------------------------------------------------- invalid declarations
MaxInjectOps == 3

InjectRegisterInputs ==
  {<<NameA, GivenFn(f), o>> : f \in {FnInjObj, FnInjBad, FnInjFalse, FnOnC},
                              o \in {OptSkip, NoOptions}}
  \cup {<<NameA, GivenFn(f), OptSkip>> : f \in {FnShort, FnTrail, FnTrailZ, FnOnCB}}

NextInject ==
  \/ \E in \in InjectRegisterInputs :
       nops < MaxInjectOps /\ Register(in[1], in[2], in[3])
  \/ \E ra \in {ArgsNone, ArgsBags(NameA :> (NameZ :> Lit(2)))} :
       nops < MaxInjectOps /\ Resolve(NameA, ra, FALSE)
  \/ \E src \in RegisterSources : nops < MaxInjectOps /\ SetRegisterSource(src)
  \/ \E skip \in BOOLEAN : nops < MaxInjectOps /\ SetSkipTraceErrors(skip)

SpecInject == Init /\ [][NextInject]_vars

\* The zero-based positions of the invalid specifiers in the $inject arrays
\* of the fixtures: in [5, {name: 'c'}, '?'] the number and the '?'.
DeclaredInvalid(f) == IF f = FnInjBad THEN {0, 2} ELSE {}

\* The trace check of register is skipped, or passes.
TraceChecked(options) ==
  \/ options.skipTraceErrors \/ meta.skipTraceErrors
  \/ SourceGiven(options.registerSourceFile) \/ SourceGiven(meta.registerSourceFile)

\* C20 as stated: register fails with the non-array error whenever $inject is
\* neither absent, true, nor an array, and with one error listing all invalid
\* indexes when $inject is an array with invalid specifiers.
C20_AsStated ==
  [][\A in \in InjectRegisterInputs :
       Register(in[1], in[2], in[3])
       => LET inject == fns[in[2].fid].inject
          IN /\ inject.k \notin {"none", "true", "list"}
                => ~last'.ok /\ last'.err.kind = "inject-nonarray"
             /\ (inject.k = "list" /\ DeclaredInvalid(in[2].fid) # {})
                => /\ ~last'.ok /\ last'.err.kind = "inject-invalid"
                   /\ last'.err.idx = DeclaredInvalid(in[2].fid)]_vars

\* C20: when the trace check is skipped or passes, register fails with the
\* non-array error if $inject is a truthy value other than true and not an
\* array, and with one error listing all invalid indexes if $inject is an
\* array with invalid specifiers; a falsy $inject (false, 0, '', null) is
\* treated as absent.  In each failing case the registry is left as it was.
C20_InvalidInject ==
  [][\A in \in InjectRegisterInputs :
       (Register(in[1], in[2], in[3]) /\ TraceChecked(in[3]))
       => LET inject == fns[in[2].fid].inject
          IN /\ inject.k = "object"
                => /\ ~last'.ok /\ last'.err.kind = "inject-nonarray"
                   /\ registered' = registered
             /\ (inject.k = "list" /\ DeclaredInvalid(in[2].fid) # {})
                => /\ ~last'.ok /\ last'.err.kind = "inject-invalid"
                   /\ last'.err.idx = DeclaredInvalid(in[2].fid)
                   /\ registered' = registered
             /\ inject.k = "falsy"
                => /\ last'.ok
                   /\ fns'[in[2].fid].inject =
                        InjectList(<<ReqEntry(Request(NameZ, FALSE, FALSE, TRUE))>>)]_vars

\* A registration of the fixture with $inject = [5, {name: 'c'}, '?'] has
\* failed with the error that lists the indexes 0 and 2.
C20_Witness ==
  /\ last.op = "register" /\ last.given = GivenFn(FnInjBad)
  /\ ~last.ok /\ last.err.kind = "inject-invalid" /\ last.err.idx = {0, 2}

\* ----------------------------------------------------------- two containers
\* The operations of the second container.  Both containers live in one
\* program: they share the function objects (fns) and the objects created.
MaxPairOps == 4

OtherRegister(itemName, given, options) ==
  LET isFn == given.k = "fn"
  IN \E r \in {registerFactory(other.meta, itemName,
                               IF isFn THEN fns[given.fid] ELSE ItemDeclared(""),
                               IF isFn THEN FnSource(given.fid) ELSE ItemSource,
                               options)} :
     \E entry \in {IF isFn THEN FnEntry(given.fid) ELSE ItemEntry(given.item, r.deco)} :
       /\ Counted
       /\ fns' = IF isFn THEN [fns EXCEPT ![given.fid] = r.deco] ELSE fns
       /\ other' = [other EXCEPT !.registered = IF r.ok THEN (itemName :> entry) @@ @ ELSE @]
       /\ last' = LastOp("otherRegister", itemName, given, options, ArgsNone, FALSE, r.ok,
                         Undefined, r.err, NoWorld, singletons, nextId)
       /\ UNCHANGED <<registered, singletons, meta, nextId, returned, execs, regs, beforeClear>>

OtherResolve(itemName, resolveArgs, asFactory) ==
  /\ Counted
  /\ \E r \in {resolveFactory(InjectorState(other.registered, other.singletons), itemName,
                             resolveArgs, <<>>, FALSE, <<>>,
                             ResolveWorld(other.registered, other.singletons, nextId),
                             MaxDepth)} :
     \E run \in {IF r.ok /\ ~asFactory
                 THEN runFactory(r.rf, resolveArgs, itemName, r.history,
                                 updateInjectorState(r.w, r.st))
                 ELSE [ok |-> TRUE, err |-> NoErr,
                       val |-> IF r.ok THEN CallableValue(r.rf) ELSE Undefined,
                       w |-> IF r.ok THEN updateInjectorState(r.w, r.st) ELSE r.w]} :
       /\ other' = [other EXCEPT !.singletons = run.w.live.singletons]
       /\ nextId' = run.w.id
       /\ last' = LastOp("otherResolve", itemName, GivenItem(Undefined), NoOptions,
                         resolveArgs, asFactory, r.ok /\ run.ok,
                         IF r.ok /\ run.ok THEN run.val ELSE Undefined,
                         IF ~r.ok THEN r.err ELSE run.err, run.w, singletons, nextId)
       /\ UNCHANGED <<registered, singletons, meta, fns, returned, execs, regs, beforeClear>>

OtherSetRegisterSource(registerSourceFile) ==
  /\ Counted
  /\ other' = [other EXCEPT !.meta.registerSourceFile = registerSourceFile]
  /\ last' = LastOp("otherSetRegisterSource", NoStr, GivenItem(Undefined), NoOptions, ArgsNone,
                    FALSE, TRUE,
                    IF SourceGiven(other.meta.registerSourceFile)
                    THEN StrVal(other.meta.registerSourceFile) ELSE NullVal,
                    NoErr, NoWorld, singletons, nextId)
  /\ UNCHANGED <<registered, singletons, meta, fns, nextId, returned, execs, regs,
                 beforeClear>>

OtherClearSingletons ==
  /\ Counted
  /\ other' = [other EXCEPT !.singletons = EmptyMap]
  /\ last' = LastOp("otherClear", NoStr, GivenItem(Undefined), NoOptions, ArgsNone, FALSE,
                    TRUE, Undefined, NoErr, NoWorld, singletons, nextId)
  /\ UNCHANGED <<registered, singletons, meta, fns, nextId, returned, execs, regs,
                 beforeClear>>

\* resolve(itemName) called on the container object that an earlier
\* resolve(holder) of the first container returned.
ResolveVia(holder, itemName, resolveArgs, asFactory) ==
  /\ returned[holder] \in {DiVal, DiOther}
  /\ IF returned[holder] = DiVal THEN Resolve(itemName, resolveArgs, asFactory)
     ELSE OtherResolve(itemName, resolveArgs, asFactory)

PairRegisterInputs ==
  {<<NameC, GivenFn(FnLeaf), OptSkip>>, <<NameC, GivenFn(FnLeaf), OptForce>>,
   <<NameC, GivenFn(FnLeaf), NoOptions>>, <<NameA, GivenFn(FnOnDi), OptSkip>>}

NextPair ==
  \/ \E in \in PairRegisterInputs : nops < MaxPairOps /\ Register(in[1], in[2], in[3])
  \/ \E n \in {NameA, NameC} : nops < MaxPairOps /\ Resolve(n, ArgsNone, FALSE)
  \/ nops < MaxPairOps /\ ClearSingletons
  \/ \E n \in {NameA, NameC} : nops < MaxPairOps /\ ResolveVia(NameA, n, ArgsNone, FALSE)
  \/ \E in \in PairRegisterInputs : nops < MaxPairOps /\ OtherRegister(in[1], in[2], in[3])
  \/ \E n \in {NameA, NameC} : nops < MaxPairOps /\ OtherResolve(n, ArgsNone, FALSE)
  \/ \E src \in RegisterSources : nops < MaxPairOps /\ OtherSetRegisterSource(src)
  \/ nops < MaxPairOps /\ OtherClearSingletons

SpecPair == Init /\ [][NextPair]_vars

\* C14: the container is registered under 'factoryDi' from construction on; a
\* factory that depends on 'factoryDi' receives the very container resolve
\* was called on (and not the other container of the program), and a resolve
\* made through the container received is a resolve on the container itself.
C14_SelfRegistered ==
  [][/\ IsRegistered(DiName)' /\ registered'[DiName].item = DiVal
     /\ DiName \in DOMAIN other'.registered /\ other'.registered[DiName].item = DiOther
     /\ \A n \in ItemNames :
          /\ (Resolved(n)' /\ registered'[n].fid = FnOnDi) => last'.val = DiVal
          /\ (last'.op = "otherResolve" /\ last'.name = n /\ last'.ok
              /\ n \in DOMAIN other'.registered /\ other'.registered[n].fid = FnOnDi)
             => last'.val = DiOther
     /\ \A n \in {NameA, NameC} :
          ResolveVia(NameA, n, ArgsNone, FALSE) => Resolve(n, ArgsNone, FALSE)]_vars

\* A resolve of 'c' through the container that resolve('a') had returned has
\* built an object.
C14_Witness ==
  /\ returned[NameA] = DiVal /\ IsRegistered(NameA) /\ registered[NameA].fid = FnOnDi
  /\ Resolved(NameC) /\ last.val.t = "obj"

\* What resolve(n) on a container in the given state does: the outcome, the
\* value up to the identity of new objects, and the cache it leaves.
ResolveOutcome(reg, sing, n) ==
  LET r == resolveFactory(InjectorState(reg, sing), n, ArgsNone, <<>>, FALSE, <<>>,
                          ResolveWorld(reg, sing, 0), MaxDepth)
      run == IF r.ok THEN runFactory(r.rf, ArgsNone, n, r.history,
                                     updateInjectorState(r.w, r.st))
             ELSE [ok |-> FALSE, err |-> r.err, val |-> Undefined, w |-> r.w]
  IN [ok |-> run.ok, err |-> run.err.kind, val |-> run.val,
      cache |-> run.w.live.singletons]

ThisOps == {"register", "resolve", "clear", "setRegisterSource"}
OtherOps == {"otherRegister", "otherResolve", "otherClear", "otherSetRegisterSource"}

\* C15: no register, resolve, clearSingletons or setRegisterSource call on
\* one container changes what is registered or cached in the other, or what a
\* resolve on the other does, also when both hold the same function.
C15_ContainersIsolated ==
  [][/\ last'.op \in OtherOps
        => /\ registered' = registered /\ singletons' = singletons /\ meta' = meta
           /\ \A n \in {NameA, NameC} :
                ResolveOutcome(registered, singletons, n)'
                  = ResolveOutcome(registered, singletons, n)
     /\ last'.op \in ThisOps
        => /\ other' = other
           /\ \A n \in {NameA, NameC} :
                ResolveOutcome(other.registered, other.singletons, n)'
                  = ResolveOutcome(other.registered, other.singletons, n)]_vars

\* The number of formal parameters of the fixtures registered with an
\* explicit $inject list (function (c, b,) {} has two).
FormalCount(f) ==
  CASE f \in {FnShort, FnTrail, FnTrailZ, FnOnCB} -> 2
    [] f = FnOnC -> 1
    [] f = FnInjBad -> 3
    [] OTHER -> 1

\* C21: with an explicit $inject list of valid specifiers (and the trace check
\* skipped or passing), register succeeds exactly when the list has as many
\* entries as the function has formal parameters; otherwise it fails with the
\* count-mismatch error that names both counts.
C21_CountMustMatch ==
  [][\A in \in InjectRegisterInputs :
       (/\ Register(in[1], in[2], in[3]) /\ TraceChecked(in[3])
        /\ fns[in[2].fid].inject.k = "list" /\ DeclaredInvalid(in[2].fid) = {})
       => LET found == Len(fns[in[2].fid].inject.items)
              expected == FormalCount(in[2].fid)
          IN /\ last'.ok <=> found = expected
             /\ found # expected
                => /\ last'.err.kind = "count-mismatch"
                   /\ last'.err.found = found /\ last'.err.expected = expected]_vars

\* ------------------------------------------------------- register sources
MaxSourceOps == 3

OptSrc == RegisterOptions(FALSE, "", "opt.js", FALSE)

SourceRegisterInputs ==
  {<<NameC, g, o>> : g \in {GivenFn(FnLeaf), GivenFn(FnNoFile), GivenItem(Lit(1))},
                     o \in {NoOptions, OptSkip, OptSrc}}

\* The labels given to setRegisterSource: two file names, and null (what
\* setRegisterSource returns when no label was set).
SourceInputs == {"app.js", "lib.js", NullSource}

NextSource ==
  \/ \E in \in SourceRegisterInputs :
       nops < MaxSourceOps /\ Register(in[1], in[2], in[3])
  \/ nops < MaxSourceOps /\ Resolve(NameC, ArgsNone, FALSE)
  \/ \E src \in SourceInputs : nops < MaxSourceOps /\ SetRegisterSource(src)
  \/ \E skip \in BOOLEAN : nops < MaxSourceOps /\ SetSkipTraceErrors(skip)

SpecSource == Init /\ [][NextSource]_vars

\* The decorations of what is registered under n.
RegisteredDeco(n) == EntryDeco(registered[n])

\* C22: register stamps the factory with options.registerSourceFile when
\* given, else with the label last set by setRegisterSource, else with
\* undefined; it fails when the stamp is undefined and trace errors are not
\* skipped, and succeeds otherwise, also for a factory without $filename.
C22_RegisterSourceStamp ==
  [][\A in \in SourceRegisterInputs :
       Register(in[1], in[2], in[3])
       => LET stamp == IF in[3].registerSourceFile # "" THEN in[3].registerSourceFile
                       ELSE IF meta.registerSourceFile \in {"app.js", "lib.js"}
                       THEN meta.registerSourceFile
                       ELSE ""
              skipped == in[3].skipTraceErrors \/ meta.skipTraceErrors
          IN /\ in[2].k = "fn" => fns'[in[2].fid].regSource = stamp
             /\ last'.ok => RegisteredDeco(in[1])'.regSource = stamp
             /\ (stamp = "" /\ ~skipped)
                => ~last'.ok /\ last'.err.kind = "no-source" /\ registered' = registered
             /\ (stamp # "" \/ skipped) => last'.ok]_vars

\* A factory without $filename has been registered with trace errors not
\* skipped, and carries the label set by setRegisterSource.
C22_Witness ==
  /\ last.op = "register" /\ last.given = GivenFn(FnNoFile) /\ last.ok
  /\ ~last.options.skipTraceErrors /\ ~meta.skipTraceErrors
  /\ last.options.registerSourceFile = ""
  /\ RegisteredDeco(NameC).filename = "" /\ RegisteredDeco(NameC).regSource = "app.js"

\* The registration source as register sees it.
EffectiveSource(label) == IF SourceGiven(label) THEN label ELSE ""

\* C23: setRegisterSource(label) returns the label set before, or null when
\* none was set; a following setRegisterSource with the value returned puts
\* the registration source back to what it was before the first call.
C23_SetRegisterSourceRestores ==
  [][\A src \in SourceInputs :
       SetRegisterSource(src)
       => /\ last'.val = IF meta.registerSourceFile \in {"app.js", "lib.js"}
                         THEN StrVal(meta.registerSourceFile) ELSE NullVal
          /\ (last.op = "setRegisterSource"
              /\ src = (IF last.val = NullVal THEN NullSource ELSE last.val.s))
             => EffectiveSource(meta'.registerSourceFile)
                  = EffectiveSource(last.sourceBefore)]_vars

\* The label "app.js" was replaced by "lib.js" and then put back with the
\* value that call returned.
C23_Witness ==
  /\ last.op = "setRegisterSource" /\ last.val = StrVal("lib.js")
  /\ last.sourceBefore = "lib.js" /\ meta.registerSourceFile = "app.js"

\* ------------------------------------------------------------ error traces
\* The dependencies whose resolution failed during the last call, innermost
\* first: each is the request of an item on the path of the failure.
FailedEvents == SelectSeq(last.evs, LAMBDA e : ~e.ok)

\* The path of the failure, from the failing item up to the item resolve was
\* called with.
FailurePath ==
  IF FailedEvents = <<>> THEN <<last.name>>
  ELSE <<FailedEvents[1].dep>> \o [i \in 1..Len(FailedEvents) |-> FailedEvents[i].item]

StackNames(err) == [i \in 1..Len(err.stack) |-> err.stack[i].name]

\* C24: the trace of a not-registered or cyclic-dependency error of resolve
\* lists the path of the failure and nothing else: the failing item first,
\* then each requesting parent, the item given to resolve last.
C24_TraceIsFailurePath ==
  (last.op = "resolve" /\ ~last.ok /\ last.err.kind \in {"not-registered", "cyclic"})
  => /\ StackNames(last.err) = FailurePath
     /\ StackNames(last.err)[1] = last.err.name
     /\ StackNames(last.err)[Len(last.err.stack)] = last.name

\* A resolve has failed for a missing dependency after a sibling dependency
\* was resolved; the sibling is not in the trace.
C24_Witness ==
  /\ last.op = "resolve" /\ ~last.ok /\ last.err.kind = "not-registered"
  /\ Len(last.err.stack) >= 2
  /\ \E i \in 1..Len(last.evs) :
       /\ last.evs[i].ok /\ last.evs[i].isRegistered
       /\ \A k \in 1..Len(last.err.stack) : last.err.stack[k].name # last.evs[i].dep

\* ------------------------------------------- parameters without $inject list
\* Factories whose placeholders are read from their parameter list.
MaxPlainOps == 3

PlainRegisterInputs ==
  {<<NameA, GivenFn(f), OptSkip>> : f \in {FnPhCZ, FnTrueOptZ, FnTrueReqZ}}
  \cup {<<NameC, GivenItem(Lit(1)), OptSkip>>}

PlainArgsInputs ==
  {ArgsNone}
  \cup {ArgsBags(bags) : bags \in
         {(NameA :> (NameC :> Lit(2))),
          (NameA :> (NameZ :> Lit(3))),
          (NameA :> ((NameC :> Lit(2)) @@ (NameZ :> Lit(3)))),
          (CommonKey :> (NameC :> Lit(2)))}}

NextPlain ==
  \/ \E in \in PlainRegisterInputs :
       nops < MaxPlainOps /\ Register(in[1], in[2], in[3])
  \/ \E n \in {NameA, NameC}, ra \in PlainArgsInputs :
       nops < MaxPlainOps /\ Resolve(n, ra, FALSE)

SpecPlain == Init /\ [][NextPlain]_vars

\* What the last resolve call offered for parameter p of item n: the value in
\* the bag of n when that bag has p, else the value in the shared bag.
Offered(n, p) == IF HasKey(n, p) THEN Given(n, p) ELSE Given(CommonKey, p)

\* The last operation was a resolve of n, and n is registered as fixture f.
ResolveOf(n, f) ==
  last.op = "resolve" /\ last.name = n /\ IsRegistered(n) /\ registered[n].fid = f

\* C25: for function (c, z = 1) registered without $inject, no parameter is
\* looked up in the registry, also when 'c' is registered: both are filled
\* from resolveArgs only, c required and z (which has a default) optional.
C25_AllParametersPlaceholders ==
  \A n \in ItemNames :
    ResolveOf(n, FnPhCZ)
    => /\ \A i \in 1..Len(last.evs) : last.evs[i].item # n
       /\ Offered(n, NameC) = Undefined
          => ~last.ok /\ FailedWith("run", NameC) /\ last.calls = <<>>
       /\ Offered(n, NameC) # Undefined
          => /\ last.ok /\ Len(last.calls) = 1
             /\ last.calls[1].args = <<Offered(n, NameC), Offered(n, NameZ)>>
             /\ last.val = Offered(n, NameC)

\* 'c' is registered as the item 1, and a resolve that offered 2 for the
\* parameter c and nothing for z has returned 2.
C25_Witness ==
  /\ ResolveOf(NameA, FnPhCZ) /\ last.ok
  /\ IsRegistered(NameC) /\ registered[NameC].item = Lit(1)
  /\ last.val = Lit(2) /\ last.calls[1].args = <<Lit(2), Undefined>>

\* C26: for function (c, z) with $inject = true and $placeholders naming z,
\* c is a dependency resolved from the registry and never taken from
\* resolveArgs, and z is a placeholder filled from resolveArgs, optional
\* exactly when its name in $placeholders ends with '?'.
C26_InjectTrueWithPlaceholders ==
  \A n \in ItemNames, f \in {FnTrueOptZ, FnTrueReqZ} :
    ResolveOf(n, f)
    => /\ ~IsRegistered(NameC)
          => ~last.ok /\ FailedWith("not-registered", NameC) /\ last.calls = <<>>
       /\ (IsRegistered(NameC) /\ registered[NameC].fid = 0)
          => /\ \E i \in 1..Len(last.evs) :
                  last.evs[i].item = n /\ last.evs[i].dep = NameC /\ last.evs[i].ok
             /\ \A k \in CallsOf(last.calls, n) :
                  last.calls[k].args = <<registered[NameC].item, Offered(n, NameZ)>>
             /\ (f = FnTrueReqZ /\ Offered(n, NameZ) = Undefined)
                => ~last.ok /\ FailedWith("run", NameZ) /\ CallsOf(last.calls, n) = {}
             /\ (f = FnTrueOptZ \/ Offered(n, NameZ) # Undefined)
                => last.ok /\ last.val = registered[NameC].item

\* The optional placeholder was left out and resolveArgs offered 2 for the
\* dependency c: the factory was called with the registered 1 and undefined.
C26_Witness ==
  /\ ResolveOf(NameA, FnTrueOptZ) /\ last.ok
  /\ Offered(NameA, NameC) = Lit(2) /\ Offered(NameA, NameZ) = Undefined
  /\ \E k \in CallsOf(last.calls, NameA) : last.calls[k].args = <<Lit(1), Undefined>>

\* ------------------------------------------------------ prior registry state
\* What the registry map held before a step shows under n after the step:
\* the map itself is not written to, and a function entry is the function
\* object, read with the decorations it carries after the step.
SnapshotDeco(n) ==
  IF registered[n].fid = 0 THEN registered[n].deco ELSE fns'[registered[n].fid]

\* C27: the registry map as it was before a register call shows after the
\* call the same names and, for each name, the same factory with the same
\* singleton flag, origin file, registration source and injection spec.
C27_PriorStateUntouched ==
  [][\A in \in RegisterInputs :
       Register(in[1], in[2], in[3])
       => \A n \in DOMAIN registered : SnapshotDeco(n) = EntryDeco(registered[n])]_vars

C29_NonSingletonKeepsState ==
  [][(last'.op = "resolve" /\ IsRegistered(last'.name)
      /\ ~EntryDeco(registered[last'.name]).singleton)
     => singletons' = singletons /\ registered' = registered /\ meta' = meta]_vars

\* A factory that is not a singleton has been resolved, the body of a
\* singleton dependency ran for it, and the cache does not hold that
\* dependency.
C29_Witness ==
  /\ last.op = "resolve" /\ last.ok /\ ~last.asFactory
  /\ IsFactory(last.name) /\ ~IsSingletonFactory(last.name)
  /\ \E k \in 1..Len(last.calls) :
       /\ last.calls[k].name # last.name
       /\ IsSingletonFactory(last.calls[k].name)
       /\ last.calls[k].name \notin DOMAIN singletons
  /\ singletons = last.pre

\* --------------------------------------------------- singletons and the cache
\* The singleton fixtures with the placeholder z, whose body returns z.
SingletonWithPlaceholder(n) ==
  IsSingletonFactory(n) /\ registered[n].fid \in {FnPhZ, FnOptZ}

\* The cache held an entry for n before the last resolve: n is served from it.
ServedFromCache(n) ==
  /\ last.ok /\ CallsOf(last.calls, n) = {}
  /\ ~last.asFactory => last.val = last.pre[n]
  /\ n \in DOMAIN singletons /\ singletons[n] = last.pre[n]

\* The cache had no entry for n before the last resolve of n: the body runs
\* once with z as that call offered it and its value is cached, or the
\* required z is missing and nothing is cached.
FirstInvocation(n) ==
  IF registered[n].fid = FnPhZ /\ Offered(n, NameZ) = Undefined
  THEN ~last.ok /\ FailedWith("run", NameZ) /\ n \notin DOMAIN singletons
  ELSE /\ last.ok /\ Cardinality(CallsOf(last.calls, n)) = 1
       /\ \A k \in CallsOf(last.calls, n) : last.calls[k].args = <<Offered(n, NameZ)>>
       /\ n \in DOMAIN singletons /\ singletons[n] = Offered(n, NameZ)
       /\ ~last.asFactory => last.val = Offered(n, NameZ)

\* The body of n ran for a resolve of another item that succeeded: what it
\* returned is in the cache.
ReachedAsDependency(n) ==
  \A k \in CallsOf(last.calls, n) :
    n \in DOMAIN singletons /\ singletons[n] = last.calls[k].args[1]

\* C30: a singleton factory is invoked by the resolve that first reaches it,
\* with its placeholders filled from that call's resolveArgs, and its value is
\* stored in the cache; once the cache has an entry every resolve returns it,
\* whatever resolveArgs it is given; a required placeholder missing at the
\* first invocation fails the resolve and caches nothing.
C30_SingletonCachedOnFirstReach ==
  last.op = "resolve" =>
    \A n \in ItemNames :
      SingletonWithPlaceholder(n)
      => /\ (last.name = n /\ n \in DOMAIN last.pre) => ServedFromCache(n)
         /\ (last.name = n /\ n \notin DOMAIN last.pre) => FirstInvocation(n)
         /\ (last.name # n /\ last.ok) => ReachedAsDependency(n)

\* ------------------------------------------------- the cache short-circuit
\* C31: when the cache holds an entry for a name, whatever the value (a falsy
\* one included), no resolve runs the body registered under that name, and a
\* resolve of the name returns the entry and leaves it in the cache.
C31_CachedValueShortCircuits ==
  last.op = "resolve" =>
    \A n \in DOMAIN last.pre :
      /\ CallsOf(last.calls, n) = {}
      /\ (last.name = n /\ ~last.asFactory) => last.ok /\ last.val = last.pre[n]
      /\ n \in DOMAIN singletons /\ singletons[n] = last.pre[n]

\* ------------------------------------------------------- placeholder positions
\* Factories whose declarations mix dependencies and placeholders.
MaxGapOps == 3

GapRegisterInputs ==
  {<<NameA, GivenFn(f), OptSkip>> : f \in {FnOnCPhZ, FnPhZOnC, FnPhMOnCPhZ}}
  \cup {<<NameC, GivenItem(v), OptSkip>> : v \in {Lit(0), Lit(1)}}

GapArgsInputs ==
  {ArgsNone}
  \cup {ArgsBags(bags) : bags \in
         {(NameA :> (NameZ :> Lit(3))),
          (NameA :> (NameM :> Lit(2))),
          (NameA :> ((NameM :> Lit(2)) @@ (NameZ :> Lit(3)))),
          (NameA :> (NameM :> Lit(2))) @@ (CommonKey :> (NameZ :> Lit(4))),
          (NameA :> (NameC :> Lit(2))) @@ (CommonKey :> (NameZ :> Lit(4)))}}

NextGaps ==
  \/ \E in \in GapRegisterInputs : nops < MaxGapOps /\ Register(in[1], in[2], in[3])
  \/ \E n \in {NameA, NameC}, ra \in GapArgsInputs :
       nops < MaxGapOps /\ Resolve(n, ra, FALSE)

SpecGaps == Init /\ [][NextGaps]_vars

\* The formal parameters of the fixtures, in the order of the declaration.
Formals(f) ==
  CASE f = FnOnCPhZ -> <<NameC, NameZ>>
    [] f = FnPhZOnC -> <<NameZ, NameC>>
    [] f = FnPhMOnCPhZ -> <<NameM, NameC, NameZ>>
    [] OTHER -> <<>>

\* C32: whenever the body of a factory that mixes the dependency c with
\* placeholders is called, it receives one argument per formal parameter: at
\* the index of c the value registered as c, and at the index of each
\* placeholder the value the call offered for that placeholder.
C32_ArgumentsAtDeclaredIndex ==
  last.op = "resolve" =>
    \A k \in 1..Len(last.calls) :
      LET call == last.calls[k]
          formals == Formals(call.fid)
      IN formals # <<>>
         => /\ Len(call.args) = Len(formals)
            /\ \A i \in 1..Len(formals) :
                 call.args[i] = IF formals[i] = NameC THEN registered[NameC].item
                                ELSE Offered(call.name, formals[i])

\* function (m, c, z) with $inject = ['m*?', 'c', 'z*'] has been called with
\* the offered m, the registered c and the offered z, in this order.
C32_Witness ==
  /\ last.op = "resolve" /\ last.ok /\ last.name = NameA
  /\ \E k \in CallsOf(last.calls, NameA) :
       /\ last.calls[k].fid = FnPhMOnCPhZ
       /\ last.calls[k].args = <<Lit(2), Lit(1), Lit(4)>>

\* ------------------------------------------------- resolve from a factory body
\* A factory that is given the container and resolves 'c' from its body.
MaxNestOps == 4

NestRegisterInputs ==
  {<<NameA, GivenFn(FnNest), OptSkip>>, <<NameA, GivenFn(FnNest), OptForce>>,
   <<NameB, GivenFn(FnOnA), OptSkip>>, <<NameB, GivenFn(FnOnA), OptForce>>,
   <<NameC, GivenFn(FnLeaf), OptSkip>>, <<NameC, GivenFn(FnLeaf), OptForce>>,
   <<NameC, GivenItem(Lit(1)), OptSkip>>}

NextNest ==
  \/ \E in \in NestRegisterInputs : nops < MaxNestOps /\ Register(in[1], in[2], in[3])
  \/ \E n \in ItemNames \cup {DiName} : nops < MaxNestOps /\ Resolve(n, ArgsNone, FALSE)
  \/ nops < MaxNestOps /\ ClearSingletons

SpecNest == Init /\ [][NextNest]_vars

\* The last operation was a resolve during which the body of FnNest ran and
\* its resolve('c') ran the factory registered as the singleton 'c'.
NestedMaterialized(k) ==
  /\ last.op = "resolve" /\ last.name \in {NameA, NameB}
  /\ \E j \in 1..Len(last.calls) : last.calls[j].fid = FnNest
  /\ k \in CallsOf(last.calls, NameC)
  /\ EntryDeco(registered[NameC]).singleton

\* C33: when a resolve from a factory body has materialized the singleton
\* 'c' while an outer resolve was running, the cache holds that value of 'c'
\* when the outer resolve has returned.
C33_NestedEntriesKept ==
  \A k \in 1..Len(last.calls) :
    NestedMaterialized(k)
    => NameC \in DOMAIN singletons /\ singletons[NameC] = last.calls[k].ret

\* ------------------------------------------------------------ failing resolves
\* Dependency graphs in which a resolve fails after a singleton was built.
MaxFailOps == 4

FailRegisterInputs ==
  {<<NameA, GivenFn(FnOnCB), OptSkip>>, <<NameA, GivenFn(FnOnCB), OptForce>>,
   <<NameA, GivenFn(FnOnBC), OptSkip>>,
   <<NameB, GivenFn(FnOnA), OptSkip>>, <<NameB, GivenFn(FnPhZ), OptSkip>>,
   <<NameB, GivenFn(FnPhZ), OptForce>>,
   <<NameC, GivenFn(FnLeafS), OptSkip>>, <<NameC, GivenItem(Lit(1)), OptSkip>>}

FailArgsInputs == {ArgsNone, ArgsBags(NameB :> (NameZ :> Lit(2)))}

NextFail ==
  \/ \E in \in FailRegisterInputs : nops < MaxFailOps /\ Register(in[1], in[2], in[3])
  \/ \E n \in ItemNames, ra \in FailArgsInputs : nops < MaxFailOps /\ Resolve(n, ra, FALSE)

SpecFail == Init /\ [][NextFail]_vars

\* C34: a resolve that fails (not registered, cyclic, or a required
\* placeholder missing, at any depth) leaves the registry and the singleton
\* cache as they were before the call, also when the bodies of singleton
\* dependencies ran earlier in the call.
C34_FailedResolveChangesNothing ==
  [][\A n \in ItemNames, ra \in FailArgsInputs :
       (Resolve(n, ra, FALSE) /\ ~last'.ok)
       => /\ last'.err.kind \in {"not-registered", "cyclic", "run"}
          /\ singletons' = singletons /\ registered' = registered
          /\ meta' = meta /\ fns' = fns]_vars

\* A resolve of a has failed for the missing placeholder of its dependency b
\* after the body of the singleton c ran for it; c is not in the cache.
C34_Witness ==
  /\ last.op = "resolve" /\ last.name = NameA /\ ~last.ok
  /\ FailedWith("run", NameZ) /\ last.err.item = NameB
  /\ CallsOf(last.calls, NameC) # {} /\ IsSingletonFactory(NameC)
  /\ NameC \notin DOMAIN singletons

\* ---------------------------------------------------------- failing registers
\* Registrations of the name a that succeed, and calls that fail for each of
\* the reasons register has: the name, $inject, $placeholders, the parameter
\* count, the registration source.
MaxRejectOps == 4

OptForceChecked == RegisterOptions(TRUE, "", "", FALSE)

RejectRegisterInputs ==
  {<<NameStr(NameA), GivenFn(FnLeaf), OptSkip>>, <<NameStr(NameA), GivenItem(Lit(1)), OptSkip>>,
   <<NameStr(NameA), GivenFn(FnLeafS), NoOptions>>,
   <<NameStr(NameA), GivenFn(FnLeaf), OptForceChecked>>,
   <<NameStr(NameA), GivenFn(FnInjBad), OptSkip>>, <<NameStr(NameA), GivenFn(FnInjObj), OptSkip>>,
   <<NameStr(NameA), GivenFn(FnShort), OptSkip>>, <<NameStr(NameA), GivenFn(FnPhBad), OptSkip>>,
   <<NameFalse, GivenFn(FnLeafS), OptSkip>>, <<NameArr(NameA), GivenFn(FnLeafS), OptSkip>>}

NextReject ==
  \/ \E in \in RejectRegisterInputs :
       nops < MaxRejectOps /\ RegisterNamed(in[1], in[2], in[3])
  \/ nops < MaxRejectOps /\ Resolve(NameA, ArgsNone, FALSE)
  \/ \E src \in RegisterSources : nops < MaxRejectOps /\ SetRegisterSource(src)
  \/ nops < MaxRejectOps /\ ClearSingletons

SpecReject == Init /\ [][NextReject]_vars

\* The bodies resolve(n) runs for the name n on the container with an empty
\* cache: the function, and what it returned when it is an item wrapper.
FactoryUsed(n) ==
  LET r == resolveFactory(InjectorState(registered, EmptyMap), n, ArgsNone, <<>>, FALSE, <<>>,
                          ResolveWorld(registered, EmptyMap, 0), MaxDepth)
      run == IF r.ok THEN runFactory(r.rf, ArgsNone, n, r.history,
                                     updateInjectorState(r.w, r.st))
             ELSE [ok |-> FALSE, err |-> r.err, val |-> Undefined, w |-> r.w]
  IN {<<run.w.calls[k].fid, IF run.w.calls[k].fid = 0 THEN run.w.calls[k].ret ELSE Undefined>> :
        k \in CallsOf(run.w.calls, n)}

MaxDiamondOps == 5

DiamondRegisterInputs ==
  {<<NameA, GivenFn(FnOnBC), OptSkip>>,
   <<NameB, GivenFn(FnOnM), OptSkip>>,
   <<NameC, GivenFn(FnOnM), OptSkip>>, <<NameC, GivenFn(FnOnC), OptSkip>>,
   <<NameM, GivenFn(FnLeaf), OptSkip>>, <<NameM, GivenFn(FnLeafS), OptSkip>>,
   <<NameM, GivenFn(FnOnA), OptSkip>>}

NextDiamond ==
  \/ \E in \in DiamondRegisterInputs :
       nops < MaxDiamondOps /\ Register(in[1], in[2], in[3])
  \/ \E n \in ItemNames : nops < MaxDiamondOps /\ Resolve(n, ArgsNone, FALSE)

SpecDiamond == Init /\ [][NextDiamond]_vars

\* C36: a resolve fails with a cyclic-dependency error only when the
\* dependency it names is the requesting item or one of the items being
\* resolved on the path above it; a name reached through several branches is
\* no cycle, and the diamond a -> (b, c), b -> m, c -> m resolves.
C36_CyclicOnlyForRealCycle ==
  (last.op = "resolve" /\ ~last.ok /\ last.err.kind = "cyclic")
    => \E i \in 1..Len(last.evs) :
         /\ \A j \in 1..(i - 1) : last.evs[j].ok
         /\ ~last.evs[i].ok
         /\ last.evs[i].dep = last.err.name
         /\ last.evs[i].item = last.err.item
         /\ last.evs[i].onPath

\* resolve('a') has succeeded on the diamond with m a factory that is not a
\* singleton: the body of m ran once for b and once for c.
C36_Witness ==
  /\ last.op = "resolve" /\ last.name = NameA /\ last.ok
  /\ Cardinality(CallsOf(last.calls, NameM)) = 2
  /\ CallsOf(last.calls, NameB) # {} /\ CallsOf(last.calls, NameC) # {}
  /\ \E i, j \in 1..Len(last.evs) :
       /\ last.evs[i].item = NameB /\ last.evs[i].dep = NameM
       /\ last.evs[j].item = NameC /\ last.evs[j].dep = NameM /\ ~last.evs[j].inCache

\* ------------------------------------------------- cache against the registry
\* C37: every name in the singleton cache is registered, its registered
\* factory is marked singleton, and the body of that factory has run since it
\* was registered.
C37_CacheMatchesRegistry ==
  \A n \in DOMAIN singletons :
    /\ IsRegistered(n)
    /\ EntryDeco(registered[n]).singleton
    /\ n \in ItemNames => execs[n] >= 1

\* ------------------------------------------------ trace of a missing placeholder
\* C38: the trace of a missing-placeholder error of resolve starts with the
\* item whose placeholder is missing and continues through its requesting
\* parents to the item given to resolve, whether the item is the one given to
\* resolve or a dependency.
C38_RunTraceIsFailurePath ==
  (last.op = "resolve" /\ ~last.ok /\ last.err.kind = "run")
  => /\ StackNames(last.err) = FailurePath
     /\ StackNames(last.err)[1] = last.err.item
     /\ StackNames(last.err)[Len(last.err.stack)] = last.name

\* ------------------------------------------------------- order of resolution
\* C39: during one resolve the dependencies of an item are examined in
\* declared order; a body runs after the bodies of the dependencies whose
\* values it is given; and when a dependency fails the call fails, nothing
\* is resolved after it (what follows is the same failure seen by each
\* requesting parent) and the body of the requesting item does not run.
C39_DepthFirstAbortOnFailure ==
  last.op = "resolve" =>
    /\ \A i, j \in 1..Len(last.evs) :
         (/\ i < j /\ last.evs[i].item = last.evs[j].item
          /\ \A m \in (i + 1)..(j - 1) : last.evs[m].item # last.evs[i].item)
         => last.evs[j].idx > last.evs[i].idx \/ last.evs[j].idx = 1
    /\ \A k \in 1..Len(last.calls) :
         LET deps == IF last.calls[k].fid = 0 THEN <<>> ELSE ExpectedDeps(last.calls[k].fid)
         IN \A i \in 1..Len(deps) :
              CallsOf(last.calls, deps[i]) # {}
              => \E j \in 1..(k - 1) : last.calls[j].name = deps[i]
    /\ \A p \in 1..Len(last.evs) :
         ~last.evs[p].ok
         => /\ ~last.ok
            /\ CallsOf(last.calls, last.evs[p].item) = {}
            /\ \A q \in (p + 1)..Len(last.evs) :
                 /\ ~last.evs[q].ok
                 /\ last.evs[q].dep = last.evs[q - 1].item

\* resolve('a') has failed at c, the first dependency of a; b, the second,
\* is registered and was not examined, and no body of a or b ran.
C39_Witness ==
  /\ last.op = "resolve" /\ last.name = NameA /\ ~last.ok
  /\ IsFactory(NameA) /\ registered[NameA].fid = FnOnCB
  /\ IsRegistered(NameB) /\ IsRegistered(NameC)
  /\ \E p \in 1..Len(last.evs) :
       last.evs[p].item = NameA /\ last.evs[p].dep = NameC /\ ~last.evs[p].ok
  /\ \A p \in 1..Len(last.evs) : last.evs[p].dep # NameB
  /\ CallsOf(last.calls, NameA) = {} /\ CallsOf(last.calls, NameB) = {}

====
